---------------------------- MODULE Spec2Model ----------------------------
(***************************************************************************)
(* A model of go-modrank: the dependency-graph builder (scanGoModule,      *)
(* newGoModule), the SQLite module/repository storage, the scoring engine  *)
(* (Score, scoreGoModule) and the scan orchestrator (Run, scanRepo,        *)
(* UpdateRepositoryStatusByGitHubAPI).                                     *)
(*                                                                         *)
(* Text is modelled as a sequence of one-character strings, so that        *)
(* strings.Split, the "name@version" format and the sort order of ModPath  *)
(* are computed and not assumed.                                           *)
(***************************************************************************)
EXTENDS Integers, Sequences, FiniteSets, TLC

(***************************************************************************)
(* Bounds of the model.                                                    *)
(***************************************************************************)
\* API calls (Run, Score, UpdateRepositoryStatusByGitHubAPI) made in one behaviour.
MaxCalls == 2
\* Times the remote head of a repository moves in one behaviour.
MaxPush == 1
\* Collaborator calls that fail or panic in one behaviour.
MaxFaults == 1
\* Lines of `go mod graph` output of a generated manifest.
MaxLines == 2
\* Calls of runGoModGraph one goroutine makes.
MaxGraphs == 2

\* Calls of the hosted-repository resolver one goroutine makes.
MaxResolve == 2
\* Path segments of a module name handed to the resolver.
MaxSegs == 4

\* The absent value of an optional record, the nil *GoModule of newGoModule (no
\* token is the empty text) and the nil *Repository of repoMap.
None == [none |-> TRUE]
NoNode == <<>>
NoRepo == "nil"

(***************************************************************************)
(* Text helpers.                                                           *)
(***************************************************************************)
\* Byte value of the characters used by the model (Go compares strings bytewise).
Ord(c) ==
  CASE c = "\n" -> 10
    [] c = " " -> 32
    [] c = "." -> 46
    [] c = "/" -> 47
    [] c = "1" -> 49
    [] c = "2" -> 50
    [] c = "@" -> 64
    [] c = "A" -> 65
    [] c = "B" -> 66
    [] c = "C" -> 67
    [] c = "D" -> 68
    [] c = "M" -> 77
    [] c = "P" -> 80
    [] c = "Q" -> 81
    [] c = "R" -> 82
    [] c = "a" -> 97
    [] c = "c" -> 99
    [] c = "g" -> 103
    [] c = "h" -> 104
    [] c = "i" -> 105
    [] c = "l" -> 108
    [] c = "m" -> 109
    [] c = "n" -> 110
    [] c = "o" -> 111
    [] c = "r" -> 114
    [] c = "t" -> 116
    [] c = "v" -> 118
    [] OTHER -> 255

\* a < b for Go strings.
RECURSIVE StrLess(_, _)
StrLess(a, b) ==
  IF b = <<>> THEN FALSE
  ELSE IF a = <<>> THEN TRUE
  ELSE IF Ord(Head(a)) # Ord(Head(b)) THEN Ord(Head(a)) < Ord(Head(b))
  ELSE StrLess(Tail(a), Tail(b))

\* strings.Split(s, sep) for a one-character separator: always at least one part.
RECURSIVE Split(_, _)
Split(s, sep) ==
  IF s = <<>> THEN << <<>> >>
  ELSE LET rest == Split(Tail(s), sep)
       IN IF Head(s) = sep THEN << <<>> >> \o rest
          ELSE << <<Head(s)>> \o Head(rest) >> \o Tail(rest)

\* The elements of a sequence.
Range(s) == {s[i] : i \in DOMAIN s}

\* The value of a map entry, 0 when the key is absent (Go's zero value).
At(f, k) == IF k \in DOMAIN f THEN f[k] ELSE 0

\* f with f[k] set to v.
Put(f, k, v) == [x \in DOMAIN f \cup {k} |-> IF x = k THEN v ELSE f[x]]

\* The strings of S in ascending order, as sort.Slice leaves them when they are
\* pairwise different.
RECURSIVE SortStrings(_)
SortStrings(S) ==
  IF S = {} THEN <<>>
  ELSE LET m == CHOOSE x \in S : \A y \in S \ {x} : ~StrLess(y, x)
       IN <<m>> \o SortStrings(S \ {m})

(***************************************************************************)
(* Module identity model (mod.go).                                         *)
(* During one manifest scan a *GoModule is named by the raw token that     *)
(* keys modCache; referMap and refererMap are sets of such tokens.         *)
(***************************************************************************)
\* splitModNameAndVersion: [err, name, ver].
splitModNameAndVersion(mod) ==
  LET parts == Split(mod, "@")
  IN IF Len(parts) # 2 THEN [err |-> TRUE, name |-> <<>>, ver |-> <<>>]
     ELSE [err |-> FALSE, name |-> parts[1], ver |-> parts[2]]

\* A variant of ModuleID made of the name and the version only.
ModuleIDByName(nameWithOwner, goModPath, name, ver) == name \o <<"/">> \o ver

\* The text hashed into GoModule.ID: fmt.Sprintf("%s/%s/%s/%s", ...).  sha256 is
\* taken to be collision free, so the ID is the text itself.
ModuleID(nameWithOwner, goModPath, name, ver) ==
  nameWithOwner \o <<"/">> \o goModPath \o <<"/">> \o name \o <<"/">> \o ver

\* GoModule.ModPath.
ModPath(m) == m.Name \o <<"@">> \o m.Version

\* A variant of newNode that does not look at the error of the split and makes a
\* module of the whole token.
newNodeLenient(nameWithOwner, goModPath, modPath, modCache, s) ==
  IF s.name = <<"g", "o">> \/ s.name = <<"t", "o", "o", "l", "c", "h", "a", "i", "n">>
    THEN [node |-> NoNode, err |-> FALSE, cache |-> modCache]
  ELSE [node |-> modPath, err |-> FALSE,
        cache |-> (modPath :> [ID |-> ModuleID(nameWithOwner, goModPath, s.name, s.ver),
                               Repository |-> nameWithOwner,
                               GoModPath |-> goModPath,
                               Name |-> IF s.err THEN modPath ELSE s.name,
                               Version |-> s.ver,
                               referMap |-> {},
                               refererMap |-> {}]) @@ modCache]

\* newGoModule from the keyword check on, for a token that split into s.
newNode(nameWithOwner, goModPath, modPath, modCache, s) ==
  IF s.err THEN [node |-> NoNode, err |-> TRUE, cache |-> modCache]
  ELSE IF s.name = <<"g", "o">> \/ s.name = <<"t", "o", "o", "l", "c", "h", "a", "i", "n">>
    THEN [node |-> NoNode, err |-> FALSE, cache |-> modCache]
  ELSE [node |-> modPath, err |-> FALSE,
        cache |-> (modPath :> [ID |-> ModuleID(nameWithOwner, goModPath, s.name, s.ver),
                               Repository |-> nameWithOwner,
                               GoModPath |-> goModPath,
                               Name |-> s.name,
                               Version |-> s.ver,
                               referMap |-> {},
                               refererMap |-> {}]) @@ modCache]

\* newGoModule: [node, err, cache]; node is the token of the module, or NoNode.
newGoModule(nameWithOwner, goModPath, rootModName, modPath, modCache) ==
  IF rootModName = modPath THEN [node |-> NoNode, err |-> FALSE, cache |-> modCache]
  ELSE IF modPath \in DOMAIN modCache
    THEN [node |-> modPath, err |-> FALSE, cache |-> modCache]
  ELSE newNode(nameWithOwner, goModPath, modPath, modCache, splitModNameAndVersion(modPath))

\* A variant of setRefers that leaves the members in descending ModPath order.
setRefersDescending(modCache, refs) ==
  LET byPath == SortStrings({ModPath(modCache[t]) : t \in refs})
      tokenOf(p) == CHOOSE t \in refs : ModPath(modCache[t]) = p
  IN [i \in DOMAIN byPath |-> modCache[tokenOf(byPath[Len(byPath) + 1 - i])].ID]

\* setRefers / setReferers: the members of a refer set in ascending ModPath order.
\* ModPath of a module is its token again (the token had exactly one "@"), and the
\* list is kept as the IDs of the modules, which is all that storage reads of it.
setRefers(modCache, refs) ==
  LET byPath == SortStrings({ModPath(modCache[t]) : t \in refs})
      tokenOf(p) == CHOOSE t \in refs : ModPath(modCache[t]) = p
  IN [i \in DOMAIN byPath |-> modCache[tokenOf(byPath[i])].ID]

\* setupReference, for the module cached under token t.
setupReference(modCache, t) ==
  [ID |-> modCache[t].ID,
   Repository |-> modCache[t].Repository,
   GoModPath |-> modCache[t].GoModPath,
   Name |-> modCache[t].Name,
   Version |-> modCache[t].Version,
   Refers |-> setRefers(modCache, modCache[t].referMap),
   Referers |-> setRefers(modCache, modCache[t].refererMap)]

\* A variant of IsRoot that takes every module for a root.
IsRootAlways(m) == Len(m.Referers) >= 0

\* GoModule.IsRoot.
IsRoot(m) == Len(m.Referers) = 0

(***************************************************************************)
(* Graph builder (modrank.go, scanGoModule).                               *)
(***************************************************************************)
\* A variant of link that records the edge at the caller only.
linkOneWay(callerNode, callee) ==
  IF callerNode # NoNode /\ callee.node # NoNode
    THEN [callee.cache EXCEPT ![callerNode].referMap = @ \cup {callee.node}]
    ELSE callee.cache

\* `caller.referMap[callee]` and `callee.refererMap[caller]`, when neither is nil:
\* the cache after a line whose caller is callerNode and whose callee is callee.
link(callerNode, callee) ==
  IF callerNode # NoNode /\ callee.node # NoNode
    THEN [callee.cache EXCEPT ![callerNode].referMap = @ \cup {callee.node},
                              ![callee.node].refererMap = @ \cup {callerNode}]
    ELSE callee.cache

\* The second newGoModule of a line, and the link, after the first gave caller.
scanLine(nameWithOwner, goModPath, modName, calleePath, caller) ==
  link(caller.node, newGoModule(nameWithOwner, goModPath, modName, calleePath, caller.cache))

\* The loop over the lines of the `go mod graph` output: [abort, cache].  An
\* error of newGoModule is logged and the loop goes on.
RECURSIVE scanLines(_, _, _, _, _)
scanLines(nameWithOwner, goModPath, modName, lines, modCache) ==
  IF lines = <<>> THEN [abort |-> FALSE, cache |-> modCache]
  ELSE IF Len(Head(lines)) = 0
    THEN scanLines(nameWithOwner, goModPath, modName, Tail(lines), modCache)
  ELSE IF Len(Split(Head(lines), " ")) # 2 THEN [abort |-> TRUE, cache |-> modCache]
  ELSE scanLines(nameWithOwner, goModPath, modName, Tail(lines),
                 scanLine(nameWithOwner, goModPath, modName, Split(Head(lines), " ")[2],
                          newGoModule(nameWithOwner, goModPath, modName,
                                      Split(Head(lines), " ")[1], modCache)))

\* A variant of setupModules that returns the modules but the first.
setupModulesRest(modCache, toks) ==
  [i \in 1..(Len(toks) - 1) |-> setupReference(modCache, toks[i + 1])]

\* The modules of modCache after setupReference, in ascending token order, which
\* stands for the order of the map iteration (it only decides the order of the
\* rows written).
setupModules(modCache, toks) ==
  [i \in DOMAIN toks |-> setupReference(modCache, toks[i])]

\* A variant of scannedModules in which a line of the wrong format is an error of
\* the manifest scan.
scannedModulesFatal(r) ==
  IF r.abort THEN [mods |-> <<>>, err |-> TRUE]
  ELSE [mods |-> setupModules(r.cache, SortStrings(DOMAIN r.cache)), err |-> FALSE]

\* scanGoModule after the loop over the lines gave r.
scannedModules(r) ==
  IF r.abort THEN [mods |-> <<>>, err |-> FALSE]
  ELSE [mods |-> setupModules(r.cache, SortStrings(DOMAIN r.cache)), err |-> FALSE]

\* A variant of scanGoModule in which a failing `go mod graph` is an error of the
\* manifest scan.
scanGoModuleStrict(nameWithOwner, goModPath, manifest) ==
  IF ~manifest.readable THEN [mods |-> <<>>, err |-> TRUE]
  ELSE IF ~manifest.parses THEN [mods |-> <<>>, err |-> FALSE]
  ELSE IF manifest.graphFails THEN [mods |-> <<>>, err |-> TRUE]
  ELSE scannedModules(scanLines(nameWithOwner, goModPath, manifest.modName,
                                Split(manifest.out, "\n"), <<>>))

\* A manifest as the scan finds it on disk: whether go.mod can be read and parsed,
\* the module name it declares, and what `go mod graph` does in its directory.
\* scanGoModule: [mods, err].
scanGoModule(nameWithOwner, goModPath, manifest) ==
  IF ~manifest.readable THEN [mods |-> <<>>, err |-> TRUE]
  ELSE IF ~manifest.parses THEN [mods |-> <<>>, err |-> FALSE]
  ELSE IF manifest.graphFails THEN [mods |-> <<>>, err |-> FALSE]
  ELSE scannedModules(scanLines(nameWithOwner, goModPath, manifest.modName,
                                Split(manifest.out, "\n"), <<>>))

(***************************************************************************)
(* State.                                                                  *)
(***************************************************************************)
VARIABLES
  cfg,            \* ModRank options: workerNum, githubAPICache, cleanupRepo; and
                  \* the environment of this behaviour: whether collaborators may
                  \* fail (faults), the repository lists passed to the calls
                  \* (lists), the trees pushed (pushed), the repositories
                  \* that are pushed to or archived (movable), those that are
                  \* not on GitHub (foreign) and the generated manifest (gen)
  remote,         \* per repository, the hosting side: head commit, tree, archived
  clone,          \* per repository, the local clone: [head, tree], or None
  repositories,   \* the Repositories table: repository -> RepositoryStatus
  goModules,      \* the GoModules table: ID -> row
  storage,        \* the SQLiteStorage instance: [heap, cache, err]
  scoredModCache, \* ModRank.scoredModCache: object -> score
  repoCache,      \* GitHubClient.repoCache: repository -> [IsArchived, HeadCommit], or None
  call,           \* the API call in progress: [kind, repos, spawned, err, cancelled]
  pc,             \* per repository, where its task of the call stands
  task,           \* per repository, the locals of its scan: [head, paths, goMods]
  ret,            \* what the last call returned: [kind, repos, err, outcome]
  results,        \* what the last two Scores returned, the latest last
  calls,          \* API calls made so far
  pushes,         \* pushes made so far
  faults,         \* collaborator calls that failed or panicked so far
  version,        \* how often the GoModules table was written
  resolver,       \* the hosted-repository resolver: hostRepoCache, the lookups
                  \* made per normalized name, each goroutine's call and the
                  \* results returned
  git             \* ModRank.gitAccessToken and the temporary gitconfig: the
                  \* holder of mu, lastToken, the token in the file, how often
                  \* the file was written, and each goroutine's runGoModGraph

vars == <<cfg, remote, clone, repositories, goModules, storage, scoredModCache,
          repoCache, call, pc, task, ret, results, calls, pushes, faults, version,
          resolver, git>>

(***************************************************************************)
(* The repositories and what their remotes hold.                           *)
(***************************************************************************)
Repos == {"r1", "r2"}

\* Repository.NameWithOwner: ownerName + "/" + repoName.
NameWithOwner(r) == <<"o", "/">> \o (IF r = "r1" THEN <<"r", "1">> ELSE <<"r", "2">>)

\* Repository.Weight, as set by WithWeight.
Weight(r) == IF r = "r1" THEN 1 ELSE 2

\* Repository.IsGitHubRepository: the repositories of cfg.foreign are hosted
\* elsewhere.
IsGitHubRepository(r) == r \notin cfg.foreign

\* A module token name@version, and a line of `go mod graph` output.
Tok(n) == <<n, "@", "v", "1">>
Edge(a, b) == Tok(a) \o <<" ">> \o Tok(b) \o <<"\n">>

\* The path of a manifest from the repository root.
GoMod == <<"g", "o", ".", "m", "o", "d">>

Manifest(name, out) ==
  [readable |-> TRUE, parses |-> TRUE, modName |-> <<name>>, graphFails |-> FALSE, out |-> out]

\* The path of a manifest in a subdirectory.
SubGoMod == <<"m", "/">> \o GoMod

\* The path of a manifest in another subdirectory.
OtherGoMod == <<"n", "/">> \o GoMod

\* Lines that `go mod graph` can print for a manifest that declares module D.  The
\* main module is printed without version; the others as name@version.
GraphLines ==
  << <<"D", " ">> \o Tok("A"),
     <<"D", " ">> \o Tok("B"),
     Tok("A") \o <<" ">> \o Tok("B"),
     Tok("B") \o <<" ">> \o Tok("A"),
     Tok("A"),
     Tok("A") \o <<" ", "B">>,
     Tok("A") \o <<"@", "1", " ">> \o Tok("B"),
     <<"D", " ", "g", "o", "@", "1">>,
     Tok("A") \o <<" ", "t", "o", "o", "l", "c", "h", "a", "i", "n", "@", "1">>,
     Tok("B") \o <<" ">> \o Tok("D"),
     Tok("B") \o <<" ", "D">>,
     <<>>,
     Tok("A") \o <<" ">> \o Tok("C") >>

\* The output made of the lines with the given indexes, each ended by a newline.
RECURSIVE GenOut(_)
GenOut(ids) ==
  IF ids = <<>> THEN <<>> ELSE GraphLines[Head(ids)] \o <<"\n">> \o GenOut(Tail(ids))

\* What a generated manifest can be: an output of at most MaxLines lines, or a
\* go.mod that cannot be read or parsed, or a `go mod graph` that exits non-zero.
RECURSIVE LineSeqs(_)
LineSeqs(n) ==
  IF n = 0 THEN {<<>>}
  ELSE LineSeqs(n - 1) \cup {Append(q, i) : q \in {x \in LineSeqs(n - 1) : Len(x) = n - 1},
                                          i \in DOMAIN GraphLines}

NoGen == [lines |-> <<>>, mode |-> "ok"]

Gens ==
  [lines : LineSeqs(MaxLines), mode : {"ok"}]
    \cup [lines : {<<>>}, mode : {"graphFails", "unparsable", "unreadable"}]

GenManifest(gen) ==
  [readable |-> gen.mode # "unreadable", parses |-> gen.mode # "unparsable",
   modName |-> <<"D">>, graphFails |-> gen.mode = "graphFails", out |-> GenOut(gen.lines)]

\* The trees a head commit can hold: the manifests by path.  The trees gen and
\* gen2 hold the manifest that the configuration generates, alone and next to a
\* second manifest in a subdirectory.  In slashed the manifest at go.mod requires
\* the module go.mod/C; in nested a directory go.mod holds a manifest that
\* requires the module C.
Trees ==
  [gen     |-> (GoMod :> GenManifest(cfg.gen)),
   gen2    |-> (GoMod :> GenManifest(cfg.gen)) @@ (SubGoMod :> Manifest("M", Edge("Q", "C"))),
   none    |-> <<>>,
   slashed |-> (GoMod :> Manifest("D", <<"D", " ">> \o GoMod \o <<"/">> \o Tok("C") \o <<"\n">>)),
   nested  |-> ((GoMod \o <<"/">> \o GoMod) :> Manifest("D", <<"D", " ">> \o Tok("C") \o <<"\n">>)),
   chain   |-> (GoMod :> Manifest("A", Edge("A", "B") \o Edge("B", "C"))),
   cycle   |-> (GoMod :> Manifest("A", Edge("A", "B") \o Edge("B", "A"))),
   rooted  |-> (GoMod :> Manifest("D", Edge("R", "A") \o Edge("A", "B") \o Edge("B", "A"))),
   diamond |-> (GoMod :> Manifest("D", Edge("P", "M") \o Edge("P", "Q") \o Edge("M", "Q"))),
   single  |-> (GoMod :> Manifest("D", Edge("Q", "C"))),
   three   |-> (GoMod :> Manifest("D", Edge("A", "B") \o Edge("B", "C")))
                 @@ (SubGoMod :> Manifest("M", Edge("Q", "C")))
                 @@ (OtherGoMod :> Manifest("N", Edge("Q", "C")))]

(***************************************************************************)
(* SQLite storage.  The GoModules table is a function from ID to row, the  *)
(* Repositories table a function from repository to status.  The objects   *)
(* that hydration allocates live in a heap (a sequence; an object is named *)
(* by its index) and SQLiteStorage.modCache maps an ID to an object.       *)
(***************************************************************************)
\* insertOrUpdateGoModule: INSERT ... ON CONFLICT(ID) DO UPDATE SET IsRoot, Refers, Referers.
insertOrUpdateGoModule(tbl, mod) ==
  IF mod.ID \in DOMAIN tbl
    THEN [tbl EXCEPT ![mod.ID].IsRoot = IsRoot(mod),
                     ![mod.ID].Refers = mod.Refers,
                     ![mod.ID].Referers = mod.Referers]
    ELSE (mod.ID :> [NameWithOwner |-> mod.Repository,
                     GoModPath |-> mod.GoModPath,
                     ModuleName |-> mod.Name,
                     ModuleVersion |-> mod.Version,
                     IsRoot |-> IsRoot(mod),
                     Refers |-> mod.Refers,
                     Referers |-> mod.Referers]) @@ tbl

\* InsertOrUpdateGoModules: every module of the list, in one transaction.
RECURSIVE InsertOrUpdateGoModules(_, _)
InsertOrUpdateGoModules(tbl, mods) ==
  IF mods = <<>> THEN tbl
  ELSE InsertOrUpdateGoModules(insertOrUpdateGoModule(tbl, Head(mods)), Tail(mods))

\* The object a row is read into, before its references are resolved.
NewObject(tbl, id) ==
  [ID |-> id, Repository |-> tbl[id].NameWithOwner, Name |-> tbl[id].ModuleName,
   Refers |-> <<>>, Referers |-> <<>>]

\* FindGoModuleByID and findModulesFromJSON thread the storage instance
\* st = [heap, cache, err]; ret is the object found, mods the list of objects.
RECURSIVE FindGoModuleByID(_, _, _), findModulesFromJSON(_, _, _)

\* A variant of withReferences that leaves the referers of the object empty.
withReferencesHalf(a, refers, referers) ==
  IF referers.st.err THEN [st |-> referers.st, ret |-> 0]
  ELSE [st |-> [referers.st EXCEPT !.heap[a].Refers = refers], ret |-> a]

\* `Refers: refers, Referers: referers` of the object a, or the error of the
\* second findModulesFromJSON.
withReferences(a, refers, referers) ==
  IF referers.st.err THEN [st |-> referers.st, ret |-> 0]
  ELSE [st |-> [referers.st EXCEPT !.heap[a].Refers = refers,
                                   !.heap[a].Referers = referers.mods],
        ret |-> a]

\* The second findModulesFromJSON of a row, after the first gave refers.
withReferers(tbl, id, a, refers) ==
  IF refers.st.err THEN [st |-> refers.st, ret |-> 0]
  ELSE withReferences(a, refers.mods, findModulesFromJSON(tbl, tbl[id].Referers, refers.st))

\* The row id read into the object a, which st already holds and caches.
hydrate(tbl, id, a, st) ==
  withReferers(tbl, id, a, findModulesFromJSON(tbl, tbl[id].Refers, st))

FindGoModuleByID(tbl, id, st) ==
  IF id \in DOMAIN st.cache THEN [st |-> st, ret |-> st.cache[id]]
  ELSE IF id \notin DOMAIN tbl THEN [st |-> [st EXCEPT !.err = TRUE], ret |-> 0]
  ELSE hydrate(tbl, id, Len(st.heap) + 1,
               [st EXCEPT !.heap = Append(@, NewObject(tbl, id)),
                          !.cache = (id :> (Len(st.heap) + 1)) @@ @])

\* `mods = append(mods, mod)`: the object a before the rest of the list.
appendMod(a, rest) == [st |-> rest.st, mods |-> <<a>> \o rest.mods]

\* The list after its first element was found.
modulesAfter(tbl, ids, first) ==
  IF first.st.err THEN [st |-> first.st, mods |-> <<>>]
  ELSE appendMod(first.ret, findModulesFromJSON(tbl, ids, first.st))

findModulesFromJSON(tbl, ids, st) ==
  IF ids = <<>> THEN [st |-> st, mods |-> <<>>]
  ELSE modulesAfter(tbl, Tail(ids), FindGoModuleByID(tbl, Head(ids), st))

\* FindRootGoModules over the rows with IsRoot = TRUE, taken in the order `rows`
\* (the SELECT has no ORDER BY): every row gets a new object, which replaces the
\* cached one.  [st, roots].
RECURSIVE FindRootGoModules(_, _, _)

\* `rootMods = append(rootMods, rootMod)`: the root a before the other roots.
appendRoot(a, rest) == [st |-> rest.st, roots |-> <<a>> \o rest.roots]

\* The roots after the first row was read.
rootsAfter(tbl, rows, first) ==
  IF first.st.err THEN [st |-> first.st, roots |-> <<>>]
  ELSE appendRoot(first.ret, FindRootGoModules(tbl, rows, first.st))

FindRootGoModules(tbl, rows, st) ==
  IF rows = <<>> THEN [st |-> st, roots |-> <<>>]
  ELSE rootsAfter(tbl, Tail(rows),
                  hydrate(tbl, Head(rows), Len(st.heap) + 1,
                          [st EXCEPT !.heap = Append(@, NewObject(tbl, Head(rows))),
                                     !.cache = Put(@, Head(rows), Len(st.heap) + 1)]))

\* The IDs of the root rows.
RootRows(tbl) == {id \in DOMAIN tbl : tbl[id].IsRoot}

\* The orders a set can be listed in.
RECURSIVE Orders(_)
Orders(S) ==
  IF S = {} THEN {<<>>}
  ELSE UNION {{<<x>> \o o : o \in Orders(S \ {x})} : x \in S}

(***************************************************************************)
(* Scoring engine (modrank.go, Score and scoreGoModule).                   *)
(* acc = [depMap, scored, log]: the visited set of the current root, the   *)
(* accumulator scoredModCache (object -> score), and a log of the writes   *)
(* made to the accumulator, [root, mod, amount], kept for the properties.  *)
(***************************************************************************)
\* A variant of scoreGoModule that recurses with weight and not weight+1.
RECURSIVE scoreGoModuleFlat(_, _, _, _, _)
scoreGoModuleFlat(heap, root, refs, weight, acc) ==
  IF refs = <<>> THEN acc
  ELSE IF Head(refs) \in acc.depMap
    THEN scoreGoModuleFlat(heap, root, Tail(refs), weight, acc)
  ELSE scoreGoModuleFlat(heap, root, Tail(refs), weight,
         scoreGoModuleFlat(heap, root, heap[Head(refs)].Refers, weight,
           [depMap |-> acc.depMap \cup {Head(refs)},
            scored |-> Put(acc.scored, Head(refs), At(acc.scored, Head(refs)) + weight),
            log |-> Append(acc.log, [root |-> root, mod |-> Head(refs), amount |-> weight])]))

\* scoreGoModule: the loop over mod.Refers, here the list refs, for root `root`.
RECURSIVE scoreGoModule(_, _, _, _, _)
scoreGoModule(heap, root, refs, weight, acc) ==
  IF refs = <<>> THEN acc
  ELSE LET ref == Head(refs)
       IN IF ref \in acc.depMap
            THEN scoreGoModule(heap, root, Tail(refs), weight, acc)
          ELSE LET acc1 == [depMap |-> acc.depMap \cup {ref},
                            scored |-> Put(acc.scored, ref, At(acc.scored, ref) + weight),
                            log |-> Append(acc.log, [root |-> root, mod |-> ref, amount |-> weight])]
                   acc2 == scoreGoModule(heap, root, heap[ref].Refers, weight + 1, acc1)
               IN scoreGoModule(heap, root, Tail(refs), weight, acc2)

\* The repository of the list whose NameWithOwner is name, or NoRepo (repoMap).
RepoByName(repos, name) ==
  IF \E i \in DOMAIN repos : NameWithOwner(repos[i]) = name
    THEN repos[CHOOSE i \in DOMAIN repos :
                 /\ NameWithOwner(repos[i]) = name
                 /\ \A j \in DOMAIN repos : NameWithOwner(repos[j]) = name => j <= i]
    ELSE NoRepo

\* The loop of Score over the roots.
RECURSIVE scoreRoots(_, _, _, _)
scoreRoots(heap, roots, repos, acc) ==
  IF roots = <<>> THEN acc
  ELSE LET root == Head(roots)
           repo == RepoByName(repos, heap[root].Repository)
       IN IF repo = NoRepo THEN scoreRoots(heap, Tail(roots), repos, acc)
          ELSE LET acc1 == [depMap |-> {root},
                            scored |-> Put(acc.scored, root, Weight(repo)),
                            log |-> Append(acc.log, [root |-> root, mod |-> root,
                                                     amount |-> Weight(repo)])]
                   acc2 == scoreGoModule(heap, root, heap[root].Refers, Weight(repo) + 1, acc1)
               IN scoreRoots(heap, Tail(roots), repos, acc2)

\* The sum of f over the set S.
RECURSIVE Sum(_, _)
Sum(f, S) ==
  IF S = {} THEN 0
  ELSE LET x == CHOOSE y \in S : TRUE IN f[x] + Sum(f, S \ {x})

\* A variant of ScoreKey that keeps the identities apart.
ScoreKeyByID(obj) == obj.ID

\* The key under which Score folds an accumulator entry: mod.Name.
ScoreKey(obj) == obj.Name

\* modToScore: the accumulator re-keyed, name -> summed score.
modToScore(heap, scored) ==
  LET names == {ScoreKey(heap[a]) : a \in DOMAIN scored}
  IN [n \in names |-> Sum(scored, {a \in DOMAIN scored : ScoreKey(heap[a]) = n})]

\* The less function handed to sort.Slice.
ScoreLess(x, y) == x.Score > y.Score

\* The lists sort.Slice can leave of a set of records: the orders in which no
\* record comes before one that is less than it.  (The map iteration that fills
\* the list and the sort are both free to order equal scores either way.)
RECURSIVE Sorted(_)
Sorted(recs) ==
  IF recs = {} THEN {<<>>}
  ELSE UNION {{<<x>> \o o : o \in Sorted(recs \ {x})} :
              x \in {y \in recs : \A z \in recs : ~ScoreLess(z, y)}}

\* The list Score builds from modToScore, sorted.
SortedResults(totals) ==
  Sorted({[Name |-> n, Score |-> totals[n]] : n \in DOMAIN totals})

\* Score from the loop over the roots on, after FindRootGoModules gave found.
scoreFound(repos, scored, found) ==
  IF found.st.err
    THEN [st |-> found.st, acc |-> [depMap |-> {}, scored |-> scored, log |-> <<>>],
          err |-> TRUE]
    ELSE [st |-> found.st,
          acc |-> scoreRoots(found.st.heap, found.roots, repos,
                             [depMap |-> {}, scored |-> scored, log |-> <<>>]),
          err |-> FALSE]

\* Score up to the fold by name: [st, acc, err].
Score(tbl, rows, repos, st, scored) ==
  scoreFound(repos, scored, FindRootGoModules(tbl, rows, st))

Idle == [kind |-> "idle", repos |-> <<>>, spawned |-> 0, err |-> FALSE, cancelled |-> FALSE]
NoTask ==
  [head |-> <<>>, paths |-> 0, goMods |-> <<>>, lost |-> <<>>, todo |-> {}, err |-> FALSE,
   recovered |-> {}]
NewStorage == [heap |-> <<>>, cache |-> <<>>, err |-> FALSE]

\* Head commits: the empty text is a remote without commits.
NoHead == <<>>
H1 == <<"1">>
H2 == <<"2">>
NextHead(h) == IF h = NoHead THEN H1 ELSE H2

Terminal == {"skipped", "scanned", "updated", "failed", "panicked"}
InProgress == {"begin", "cloning", "scanning", "saveMods", "saveStatus", "checking"}

\* What a collaborator call can do in this behaviour.
Outcomes == IF cfg.faults /\ faults < MaxFaults THEN {"ok", "fail", "panic"} ELSE {"ok"}

\* The collaborator call of this step did o.
Did(o) == faults' = IF o = "ok" THEN faults ELSE faults + 1

(***************************************************************************)
(* Scan orchestrator (modrank.go): scanRepo, one step per collaborator call.*)
(***************************************************************************)
\* The stored status of a repository, or None (FindRepositoryByName; its error,
\* sql.ErrNoRows when there is no row, is dropped by both callers).
FindRepositoryByName(r) == IF r \in DOMAIN repositories THEN repositories[r] ELSE None

\* Repository.HeadCommit on the clone path: the empty text when there is no clone.
LocalHead(r) == IF clone[r] = None THEN NoHead ELSE clone[r].head

\* A variant of HeadUnchanged that never finds the head unchanged.
HeadAlwaysChanged(head, repoStat) == head # head

\* `head != "" && (repoStat != nil && repoStat.HeadCommitHash == head)`.
HeadUnchanged(head, repoStat) ==
  head # NoHead /\ repoStat # None /\ repoStat.HeadCommitHash = head

\* A variant of SkipArchived that never skips.
SkipArchivedNever(repoStat) == repoStat # repoStat

\* `repoStat != nil && repoStat.IsArchived`.
SkipArchived(repoStat) == repoStat # None /\ repoStat.IsArchived

\* A variant of SkipNoGoMod that never skips.
SkipNoGoModNever(repoStat) == repoStat # repoStat

\* `repoStat != nil && !repoStat.ExistsGoMod`.
SkipNoGoMod(repoStat) == repoStat # None /\ ~repoStat.ExistsGoMod

\* scanRepo up to the clone: where the task goes next.
scanRepoBegin(r) ==
  LET repoStat == FindRepositoryByName(r)
  IN IF SkipArchived(repoStat) THEN "skipped"
     ELSE IF SkipNoGoMod(repoStat) THEN "skipped"
     ELSE IF HeadUnchanged(LocalHead(r), repoStat) THEN "skipped"
     ELSE IF cfg.githubAPICache /\ IsGitHubRepository(r)
       THEN IF repoCache[r] = None THEN "failed"
            ELSE IF HeadUnchanged(repoCache[r].HeadCommit, repoStat) THEN "skipped"
            ELSE "cloning"
     ELSE "cloning"

\* The clone path after scanRepo has returned: removed when cleanup is configured.
AfterExit(c) == IF cfg.cleanupRepo THEN None ELSE c

\* Tasks of the call that have started and not returned.
Running == {r \in Repos : pc[r] \in InProgress}

\* A variant of CanStart for a group without SetLimit: the next task starts at once.
CanStartUnbounded(r) ==
  /\ call.spawned < Len(call.repos)
  /\ call.repos[call.spawned + 1] = r
  /\ pc[r] = "pending"

\* errgroup.Go under SetLimit(workerNum): the next task of the list starts when a
\* slot is free (a negative limit is no limit).
CanStart(r) ==
  /\ call.spawned < Len(call.repos)
  /\ call.repos[call.spawned + 1] = r
  /\ pc[r] = "pending"
  /\ (cfg.workerNum < 0 \/ Cardinality(Running) < cfg.workerNum)

\* A variant of ScanTaskError in which the task returns the error of scanRepo and
\* the recovered panic to the errgroup.
ScanTaskErrorKept(end) == end \in {"failed", "panicked"}

\* What the Run task returns to the errgroup for a scan that ended in `end`:
\* nil, whatever scanRepo returned and also after a recovered panic.
ScanTaskError(end) == FALSE

\* The task of r ends in `end`.
Finish(r, end) ==
  /\ pc' = [pc EXCEPT ![r] = end]
  /\ task' = [task EXCEPT ![r] = NoTask]
  /\ call' = [call EXCEPT !.err = @ \/ ScanTaskError(end),
                          !.cancelled = @ \/ ScanTaskError(end)]

ScanStart(r) ==
  /\ call.kind = "run"
  /\ CanStart(r)
  /\ pc' = [pc EXCEPT ![r] = scanRepoBegin(r)]
  /\ call' = [call EXCEPT !.spawned = @ + 1,
                          !.err = @ \/ ScanTaskError(scanRepoBegin(r)),
                          !.cancelled = @ \/ ScanTaskError(scanRepoBegin(r))]
  /\ UNCHANGED <<resolver, git, cfg, remote, clone, repositories, goModules, storage, scoredModCache,
                 repoCache, task, ret, results, calls, pushes, faults, version>>

\* The clone path after os.MkdirAll and a repo.Clone that left no commit in it:
\* a directory without a head.
EmptyDir == [head |-> NoHead, tree |-> "none"]

\* A variant of cloneEnds without the ErrEmptyRemoteRepository case.
cloneEndsEmptyFails(o) == IF o = "panic" THEN "panicked" ELSE "failed"

\* How scanRepo ends when repo.Clone did o and left no commit: an empty remote
\* (ErrEmptyRemoteRepository) returns nil, another error is returned wrapped.
cloneEnds(o) ==
  IF o = "ok" THEN "skipped" ELSE IF o = "fail" THEN "failed" ELSE "panicked"

\* os.MkdirAll, repo.Clone and the head check after it.  The deferred removal
\* of the path is registered after a clone that succeeded.
Clone(r) ==
  /\ call.kind = "run"
  /\ pc[r] = "cloning"
  /\ \E o \in Outcomes :
       /\ Did(o)
       /\ IF o = "ok" /\ remote[r].head # NoHead
         THEN LET head == remote[r].head
                  cloned == [head |-> head, tree |-> remote[r].tree]
              IN IF HeadUnchanged(head, FindRepositoryByName(r))
                   THEN /\ clone' = [clone EXCEPT ![r] = AfterExit(cloned)]
                        /\ Finish(r, "skipped")
                   ELSE /\ clone' = [clone EXCEPT ![r] = cloned]
                        /\ pc' = [pc EXCEPT ![r] = "scanning"]
                        /\ task' = [task EXCEPT ![r].head = head]
                        /\ UNCHANGED call
         ELSE /\ clone' = [clone EXCEPT ![r] = EmptyDir]
              /\ Finish(r, cloneEnds(o))
  /\ UNCHANGED <<resolver, git, cfg, remote, repositories, goModules, storage, scoredModCache,
                 repoCache, ret, results, calls, pushes, version>>

\* The modules of one manifest before those of the others.
appendMods(one, rest) == [mods |-> one.mods \o rest.mods, err |-> one.err \/ rest.err]

\* The modules of every manifest of a tree, in path order: [mods, err].
RECURSIVE scanManifests(_, _, _)
scanManifests(r, tree, paths) ==
  IF paths = <<>> THEN [mods |-> <<>>, err |-> FALSE]
  ELSE appendMods(scanGoModule(NameWithOwner(r), Head(paths), tree[Head(paths)]),
                  scanManifests(r, tree, Tail(paths)))

\* A variant of scanReturns that goes on after the error of a manifest, with the
\* modules of the others.
scanReturnsLenient(r, o, paths, scanned, lost) ==
  IF o = "ok"
    THEN /\ pc' = [pc EXCEPT ![r] = "saveMods"]
         /\ task' = [task EXCEPT ![r].paths = Len(paths), ![r].goMods = scanned.mods,
                                 ![r].lost = lost]
         /\ UNCHANGED <<clone, call>>
    ELSE /\ clone' = [clone EXCEPT ![r] = AfterExit(@)]
         /\ Finish(r, IF o = "panic" THEN "panicked" ELSE "failed")

\* scanRepo after the scan of its manifests gave scanned, the goroutine of
\* manifest `lost` having panicked (none when `lost` is empty).
scanReturns(r, o, paths, scanned, lost) ==
  IF o = "ok" /\ ~scanned.err
    THEN /\ pc' = [pc EXCEPT ![r] = "saveMods"]
         /\ task' = [task EXCEPT ![r].paths = Len(paths), ![r].goMods = scanned.mods,
                                 ![r].lost = lost]
         /\ UNCHANGED <<clone, call>>
    ELSE /\ clone' = [clone EXCEPT ![r] = AfterExit(@)]
         /\ Finish(r, IF o = "panic" THEN "panicked" ELSE "failed")

\* The scan of the manifests at `paths` when the collaborator call did o: in
\* repo.GoModPaths when `at` is empty, else in the goroutine of the manifest
\* `at`, whose deferred recover ends it with a nil error and without its modules.
scanOver(r, o, at, paths) ==
  IF at = <<>>
    THEN scanReturns(r, o, paths, scanManifests(r, Trees[clone[r].tree], paths), <<>>)
    ELSE scanReturns(r, "ok", paths,
                     scanManifests(r, Trees[clone[r].tree],
                                   SelectSeq(paths, LAMBDA p : p # at)), at)

\* repo.GoModPaths and the errgroup of scanGoModule calls.
Scan(r) ==
  /\ call.kind = "run"
  /\ pc[r] = "scanning"
  /\ \E o \in Outcomes, at \in {<<>>} \cup DOMAIN Trees[clone[r].tree] :
       /\ Did(o)
       /\ at # <<>> => o = "panic"
       /\ scanOver(r, o, at, SortStrings(DOMAIN Trees[clone[r].tree]))
  /\ UNCHANGED <<resolver, git, cfg, remote, repositories, goModules, storage, scoredModCache,
                 repoCache, ret, results, calls, pushes, version>>

\* The same scan with one step per goroutine.  repo.GoModPaths, and eg.Go for
\* every path: the goroutines of the manifests are started.
ScanFork(r) ==
  /\ call.kind = "run"
  /\ pc[r] = "scanning"
  /\ \E o \in Outcomes :
       /\ Did(o)
       /\ IF o = "ok"
         THEN /\ pc' = [pc EXCEPT ![r] = "manifests"]
              /\ task' = [task EXCEPT ![r].paths = Cardinality(DOMAIN Trees[clone[r].tree]),
                                      ![r].todo = DOMAIN Trees[clone[r].tree]]
              /\ UNCHANGED <<clone, call>>
         ELSE /\ clone' = [clone EXCEPT ![r] = AfterExit(@)]
              /\ Finish(r, IF o = "panic" THEN "panicked" ELSE "failed")
  /\ UNCHANGED <<resolver, git, cfg, remote, repositories, goModules, storage, scoredModCache,
                 repoCache, ret, results, calls, pushes, version>>

\* A variant of appendLocked that writes back the list without what the other
\* goroutines appended.
appendUnlocked(goMods, mods) == mods

\* goMods = append(goMods, mods...) between goModsMu.Lock and Unlock.
appendLocked(goMods, mods) == goMods \o mods

\* The goroutine of the manifest p when its scanGoModule gave scanned: an error
\* is returned to the errgroup, else the modules are appended under the lock.
manifestReturns(r, p, scanned) ==
  task' = [task EXCEPT ![r].todo = @ \ {p},
                       ![r].err = @ \/ scanned.err,
                       ![r].goMods = IF scanned.err THEN @ ELSE appendLocked(@, scanned.mods)]

\* The goroutine of one manifest, from scanGoModule to its return.  A panic is
\* recovered by its defer: it returns nil without having appended.
ScanManifest(r, p) ==
  /\ call.kind = "run"
  /\ pc[r] = "manifests"
  /\ p \in task[r].todo
  /\ \E o \in Outcomes \ {"fail"} :
       /\ Did(o)
       /\ IF o = "ok"
         THEN manifestReturns(r, p, scanGoModule(NameWithOwner(r), p, Trees[clone[r].tree][p]))
         ELSE task' = [task EXCEPT ![r].todo = @ \ {p}, ![r].lost = p,
                                   ![r].recovered = @ \cup {p}]
  /\ UNCHANGED <<resolver, git, cfg, remote, clone, repositories, goModules, storage,
                 scoredModCache, repoCache, call, pc, ret, results, calls, pushes, version>>

\* eg.Wait after every goroutine has returned: the first error ends scanRepo.
ScanJoin(r) ==
  /\ call.kind = "run"
  /\ pc[r] = "manifests"
  /\ task[r].todo = {}
  /\ IF task[r].err
       THEN /\ clone' = [clone EXCEPT ![r] = AfterExit(@)]
            /\ Finish(r, "failed")
       ELSE /\ pc' = [pc EXCEPT ![r] = "saveMods"]
            /\ UNCHANGED <<clone, call, task>>
  /\ UNCHANGED <<resolver, git, cfg, remote, repositories, goModules, storage, scoredModCache,
                 repoCache, ret, results, calls, pushes, faults, version>>

\* storage.InsertOrUpdateGoModules.
SaveModules(r) ==
  /\ call.kind = "run"
  /\ pc[r] = "saveMods"
  /\ \E o \in Outcomes :
       /\ Did(o)
       /\ IF o = "ok"
         THEN /\ goModules' = InsertOrUpdateGoModules(goModules, task[r].goMods)
              /\ version' = IF goModules' = goModules THEN version ELSE version + 1
              /\ pc' = [pc EXCEPT ![r] = "saveStatus"]
              /\ UNCHANGED <<clone, call, task>>
         ELSE /\ clone' = [clone EXCEPT ![r] = AfterExit(@)]
              /\ Finish(r, IF o = "panic" THEN "panicked" ELSE "failed")
              /\ UNCHANGED <<goModules, version>>
  /\ UNCHANGED <<resolver, git, cfg, remote, repositories, storage, scoredModCache,
                 repoCache, ret, results, calls, pushes>>

\* storage.InsertOrUpdateRepository with the head of the clone.
SaveStatus(r) ==
  /\ call.kind = "run"
  /\ pc[r] = "saveStatus"
  /\ \E o \in Outcomes :
       /\ Did(o)
       /\ repositories' =
            IF o = "ok"
              THEN Put(repositories, r, [HeadCommitHash |-> task[r].head,
                                         IsArchived |-> FALSE,
                                         ExistsGoMod |-> task[r].paths # 0])
              ELSE repositories
       /\ Finish(r, IF o = "ok" THEN "scanned"
                    ELSE IF o = "panic" THEN "panicked" ELSE "failed")
  /\ clone' = [clone EXCEPT ![r] = AfterExit(@)]
  /\ UNCHANGED <<resolver, git, cfg, remote, goModules, storage, scoredModCache,
                 repoCache, ret, results, calls, pushes, version>>

(***************************************************************************)
(* Run, Score and New.                                                     *)
(***************************************************************************)
\* GitHubClient.CreateGitHubRepositoryCache: an entry per GitHub repository of the list.
CreateGitHubRepositoryCache(repos) ==
  [r \in Repos |->
     IF r \in Range(repos) /\ IsGitHubRepository(r)
       THEN [IsArchived |-> remote[r].archived, HeadCommit |-> remote[r].head]
       ELSE repoCache[r]]

Pending(repos) == [r \in Repos |-> IF r \in Range(repos) THEN "pending" ELSE "idle"]

Returned(kind, repos, err) == [kind |-> kind, repos |-> repos, err |-> err, outcome |-> pc]

\* Run up to the loop that starts the tasks: the schemas, the errgroup and, with
\* WithGitHubAPICache, the repository cache.
RunBegin ==
  /\ call.kind = "idle"
  /\ calls < MaxCalls
  /\ calls' = calls + 1
  /\ \E repos \in cfg.lists, o \in Outcomes \ {"panic"} :
       /\ Did(o)
       /\ IF o = "ok"
         THEN /\ call' = [Idle EXCEPT !.kind = "run", !.repos = repos]
              /\ pc' = Pending(repos)
              /\ repoCache' = IF cfg.githubAPICache
                                THEN CreateGitHubRepositoryCache(repos) ELSE repoCache
              /\ UNCHANGED <<ret, results>>
         ELSE /\ ret' = Returned("run", repos, TRUE)
              /\ UNCHANGED <<call, pc, repoCache, results>>
  /\ UNCHANGED <<resolver, git, cfg, remote, clone, repositories, goModules, storage, scoredModCache,
                 task, pushes, version>>

\* Whether this is the first Score of a new ModRank over a new SQLiteStorage.
FirstScore == storage = NewStorage /\ scoredModCache = <<>>

\* What is kept of the result before the latest: what the call returned, the
\* list it was called with and the state of the table it ran over.
LastOf(q) ==
  IF q = <<>> THEN <<>>
  ELSE <<[ranking |-> q[Len(q)].ranking, repos |-> q[Len(q)].repos,
          first |-> q[Len(q)].first, version |-> q[Len(q)].version]>>

\* The end of Score, after the walk gave s: the fold by name, the sort and what
\* the call leaves behind.
scoreReturns(kind, repos, s) ==
  /\ storage' = s.st
  /\ scoredModCache' = s.acc.scored
  /\ ret' = Returned(kind, repos, s.err)
  /\ IF s.err THEN results' = results
     ELSE \E ranking \in SortedResults(modToScore(s.st.heap, s.acc.scored)) :
            results' = LastOf(results)
                       \o <<[ranking |-> ranking, log |-> s.acc.log, heap |-> s.st.heap,
                             scored |-> s.acc.scored, repos |-> repos,
                             first |-> FirstScore, version |-> version]>>

\* Score: hydrate the roots, walk them, fold by name and sort.
DoScore(kind, repos) ==
  \E rows \in Orders(RootRows(goModules)) :
    scoreReturns(kind, repos, Score(goModules, rows, repos, storage, scoredModCache))

\* A variant of Wait that returns once every task has been started.
WaitStarted == call.spawned = Len(call.repos)

\* eg.Wait returns: the loop has started every task and every task has returned.
Wait ==
  /\ call.spawned = Len(call.repos)
  /\ \A r \in Range(call.repos) : pc[r] \in Terminal

\* eg.Wait and the Score that ends Run.
RunEnd ==
  /\ call.kind = "run"
  /\ Wait
  /\ IF call.err
       THEN /\ ret' = Returned("run", call.repos, TRUE)
            /\ UNCHANGED <<storage, scoredModCache, results>>
       ELSE DoScore("run", call.repos)
  /\ call' = Idle
  /\ pc' = [r \in Repos |-> "idle"]
  /\ UNCHANGED <<resolver, git, cfg, remote, clone, repositories, goModules, repoCache, task,
                 calls, pushes, faults, version>>

\* Score called on its own.
ScoreCall ==
  /\ call.kind = "idle"
  /\ calls < MaxCalls
  /\ calls' = calls + 1
  /\ \E repos \in cfg.lists : DoScore("score", repos)
  /\ UNCHANGED <<resolver, git, cfg, remote, clone, repositories, goModules, repoCache, call, pc, task,
                 pushes, faults, version>>

\* New: another ModRank, with its own SQLiteStorage and GitHubClient, on the same
\* database file.
New ==
  /\ call.kind = "idle"
  /\ ~FirstScore
  /\ storage' = NewStorage
  /\ scoredModCache' = <<>>
  /\ repoCache' = [r \in Repos |-> None]
  /\ UNCHANGED <<resolver, git, cfg, remote, clone, repositories, goModules, call, pc, task, ret, results,
                 calls, pushes, faults, version>>

(***************************************************************************)
(* The hosting side.                                                       *)
(***************************************************************************)
\* A push moves the head of a repository to a commit with some tree.
Push(r) ==
  /\ call.kind = "idle"
  /\ pushes < MaxPush
  /\ pushes' = pushes + 1
  /\ r \in cfg.movable
  /\ \E t \in cfg.pushed :
       remote' = [remote EXCEPT ![r].head = NextHead(@), ![r].tree = t]
  /\ UNCHANGED <<resolver, git, cfg, clone, repositories, goModules, storage, scoredModCache,
                 repoCache, call, pc, task, ret, results, calls, faults, version>>

\* The repository is archived on the hosting side.
Archive(r) ==
  /\ call.kind = "idle"
  /\ r \in cfg.movable
  /\ ~remote[r].archived
  /\ remote' = [remote EXCEPT ![r].archived = TRUE]
  /\ UNCHANGED <<resolver, git, cfg, clone, repositories, goModules, storage, scoredModCache,
                 repoCache, call, pc, task, ret, results, calls, pushes, faults, version>>

(***************************************************************************)
(* UpdateRepositoryStatusByGitHubAPI.                                      *)
(***************************************************************************)
\* GitHubClient.ExistsGoMod: a go.mod blob in the tree of the head commit.
ExistsGoMod(r) ==
  repoCache[r].HeadCommit # NoHead /\ DOMAIN Trees[remote[r].tree] # {}

\* A variant of statusWithGoMod with the remote head.
statusWithRemoteHead(lastHead, head, existsGoMod) ==
  [HeadCommitHash |-> head, IsArchived |-> FALSE, ExistsGoMod |-> existsGoMod]

\* The status written for a repository that is not archived: the last head is
\* kept, so that the scan does not find the head unchanged.
statusWithGoMod(lastHead, head, existsGoMod) ==
  [HeadCommitHash |-> lastHead, IsArchived |-> FALSE, ExistsGoMod |-> existsGoMod]

\* updateRepositoryStatusByGitHubAPI: [err, write, status].
updateRepositoryStatusByGitHubAPI(r) ==
  LET repoStat == FindRepositoryByName(r)
      lastHead == IF repoStat # None THEN repoStat.HeadCommitHash ELSE NoHead
      nothing == [err |-> FALSE, write |-> FALSE, status |-> None]
  IN IF ~IsGitHubRepository(r) THEN nothing
     ELSE IF SkipArchived(repoStat) THEN nothing
     ELSE IF repoStat # None /\ repoStat.ExistsGoMod THEN nothing
     ELSE IF repoCache[r] = None THEN [err |-> TRUE, write |-> FALSE, status |-> None]
     ELSE IF repoCache[r].HeadCommit # NoHead /\ lastHead = repoCache[r].HeadCommit THEN nothing
     ELSE IF repoCache[r].IsArchived
       THEN [err |-> FALSE, write |-> TRUE,
             status |-> [HeadCommitHash |-> repoCache[r].HeadCommit,
                         IsArchived |-> TRUE,
                         ExistsGoMod |-> FALSE]]
     ELSE [err |-> FALSE, write |-> TRUE,
           status |-> statusWithGoMod(lastHead, repoCache[r].HeadCommit, ExistsGoMod(r))]

\* UpdateRepositoryStatusByGitHubAPI up to the loop that starts the tasks.
UpdateBegin ==
  /\ call.kind = "idle"
  /\ calls < MaxCalls
  /\ calls' = calls + 1
  /\ \E repos \in cfg.lists, o \in Outcomes \ {"panic"} :
       /\ Did(o)
       /\ IF o = "ok"
         THEN /\ call' = [Idle EXCEPT !.kind = "update", !.repos = repos]
              /\ pc' = Pending(repos)
              /\ repoCache' = CreateGitHubRepositoryCache(repos)
              /\ ret' = ret
         ELSE /\ ret' = Returned("update", repos, TRUE)
              /\ UNCHANGED <<call, pc, repoCache>>
  /\ UNCHANGED <<resolver, git, cfg, remote, clone, repositories, goModules, storage, scoredModCache,
                 task, results, pushes, version>>

\* eg.Go starts the task of the next repository.
UpdateStart(r) ==
  /\ call.kind = "update"
  /\ CanStart(r)
  /\ pc' = [pc EXCEPT ![r] = "checking"]
  /\ call' = [call EXCEPT !.spawned = @ + 1]
  /\ UNCHANGED <<resolver, git, cfg, remote, clone, repositories, goModules, storage, scoredModCache,
                 repoCache, task, ret, results, calls, pushes, faults, version>>

\* The task: updateRepositoryStatusByGitHubAPI, called with the context of the
\* caller (not the context of the group), and the deferred recover, which turns a
\* panic into the error the task returns.  The first error cancels the context
\* of the group.
UpdateTask(r) ==
  /\ call.kind = "update"
  /\ pc[r] = "checking"
  /\ \E o \in Outcomes :
       LET u == updateRepositoryStatusByGitHubAPI(r)
           e == o # "ok" \/ u.err
       IN /\ Did(o)
          /\ repositories' = IF ~e /\ u.write THEN Put(repositories, r, u.status)
                             ELSE repositories
          /\ pc' = [pc EXCEPT ![r] = IF o = "panic" THEN "panicked"
                                     ELSE IF e THEN "failed"
                                     ELSE IF u.write THEN "updated" ELSE "skipped"]
          /\ call' = [call EXCEPT !.err = @ \/ e, !.cancelled = @ \/ e]
  /\ UNCHANGED <<resolver, git, cfg, remote, clone, goModules, storage, scoredModCache,
                 repoCache, task, ret, results, calls, pushes, version>>

\* eg.Wait: the call returns the first error of the group, if any.
UpdateEnd ==
  /\ call.kind = "update"
  /\ Wait
  /\ ret' = Returned("update", call.repos, call.err)
  /\ call' = Idle
  /\ pc' = [r \in Repos |-> "idle"]
  /\ UNCHANGED <<resolver, git, cfg, remote, clone, repositories, goModules, storage, scoredModCache,
                 repoCache, task, results, calls, pushes, faults, version>>

(***************************************************************************)
(* Hosted-repository resolver (mod.go).  The goroutines that build module  *)
(* nodes call getHostedRepositoryByNameWithCache; what they share is       *)
(* hostRepoCache, read and written in separate critical sections.          *)
(***************************************************************************)
\* strings.Join(parts, sep).
RECURSIVE Join(_, _)
Join(parts, sep) ==
  IF parts = <<>> THEN <<>>
  ELSE IF Len(parts) = 1 THEN parts[1]
  ELSE parts[1] \o <<sep>> \o Join(Tail(parts), sep)

\* normalizeGoModuleName keeping two segments.
normalizeGoModuleNameTwo(name) ==
  LET parts == Split(name, "/")
  IN IF Len(parts) <= 2 THEN name ELSE Join(SubSeq(parts, 1, 2), "/")
\* normalizeGoModuleName: the first three segments of the name.
normalizeGoModuleName(name) ==
  LET parts == Split(name, "/")
  IN IF Len(parts) <= 3 THEN name ELSE Join(SubSeq(parts, 1, 3), "/")

\* [0-9].
IsDigit(c) == c \in {"0", "1", "2", "3", "4", "5", "6", "7", "8", "9"}

\* `gopkg.in/` matches s from position i: the dot of the pattern is not escaped
\* and stands for any character but a newline.
PrefixAt(s, i) ==
  /\ i + 8 <= Len(s)
  /\ SubSeq(s, i, i + 4) = <<"g", "o", "p", "k", "g">>
  /\ s[i + 5] # "\n"
  /\ SubSeq(s, i + 6, i + 8) = <<"i", "n", "/">>

\* `\.v[0-9]+$` matches s right after position e.
VersionAfter(s, e) ==
  /\ e + 3 <= Len(s)
  /\ s[e + 1] = "."
  /\ s[e + 2] = "v"
  /\ \A j \in (e + 3)..Len(s) : IsDigit(s[j])

\* `(.+)` matches s[a..b].
AnyRun(s, a, b) == a <= b /\ \A j \in a..b : s[j] # "\n"

\* gopkgInWithOwnerPat.FindAllStringSubmatch(name, -1)[0][1..2]: the leftmost
\* match, its first group the longest it can be; <<>> when nothing matches.
gopkgInWithOwnerPat(s) ==
  LET ms == {m \in (1..Len(s)) \X (1..Len(s)) \X (1..Len(s)) :
               /\ PrefixAt(s, m[1])
               /\ AnyRun(s, m[1] + 9, m[2] - 1)
               /\ s[m[2]] = "/"
               /\ AnyRun(s, m[2] + 1, m[3])
               /\ VersionAfter(s, m[3])}
  IN IF ms = {} THEN <<>>
     ELSE LET i == CHOOSE i \in {m[1] : m \in ms} : \A m \in ms : i <= m[1]
              k == CHOOSE k \in {m[2] : m \in ms} :
                     \A m \in ms : m[1] = i => m[2] <= k
              e == CHOOSE e \in {m[3] : m \in ms} :
                     \A m \in ms : (m[1] = i /\ m[2] = k) => m[3] <= e
          IN <<SubSeq(s, i + 9, k - 1), SubSeq(s, k + 1, e)>>

\* gopkgInPat.FindAllStringSubmatch(name, -1)[0][1].
gopkgInPat(s) ==
  LET ms == {m \in (1..Len(s)) \X (1..Len(s)) :
               /\ PrefixAt(s, m[1])
               /\ AnyRun(s, m[1] + 9, m[2])
               /\ VersionAfter(s, m[2])}
  IN IF ms = {} THEN <<>>
     ELSE LET i == CHOOSE i \in {m[1] : m \in ms} : \A m \in ms : i <= m[1]
              e == CHOOSE e \in {m[2] : m \in ms} :
                     \A m \in ms : m[1] = i => m[2] <= e
          IN <<SubSeq(s, i + 9, e)>>

GitHubCom == <<"g", "i", "t", "h", "u", "b", ".", "c", "o", "m">>

\* getHostedRepositoryByGoPkgIn: the repository, or the empty text.
getHostedRepositoryByGoPkgIn(name) ==
  LET withOwner == gopkgInWithOwnerPat(name)
      plain == gopkgInPat(name)
  IN IF withOwner # <<>>
     THEN GitHubCom \o <<"/">> \o withOwner[1] \o <<"/">> \o withOwner[2]
     ELSE IF plain # <<>>
     THEN GitHubCom \o <<"/", "g", "o", "-">> \o plain[1] \o <<"/">> \o plain[1]
     ELSE <<>>

\* getHostedRepositoryByName, given what proxy.golang.org and the go-import meta
\* tag answered (the empty text when the request failed): [repo, how].
getHostedRepositoryByName(name, byGoProxy, byMetaTag) ==
  LET byGoPkgIn == getHostedRepositoryByGoPkgIn(name)
  IN IF byGoProxy # <<>> THEN [repo |-> byGoProxy, how |-> "proxy"]
     ELSE IF byGoPkgIn # <<>> THEN [repo |-> byGoPkgIn, how |-> "pkgin"]
     ELSE IF byMetaTag # <<>> THEN [repo |-> byMetaTag, how |-> "tag"]
     ELSE [repo |-> name, how |-> "name"]

\* A cache read that always misses.
getHostedRepositoryByCacheNever(cache, name) == <<>>
\* getHostedRepositoryByCache: hostRepoCache[name], the empty text when absent.
getHostedRepositoryByCache(cache, name) ==
  IF name \in DOMAIN cache THEN cache[name] ELSE <<>>

\* What the network answers for a name when it answers.
ProxyOrigin(name) == <<"h", "/", "o", "/", "p">>
MetaTagRepo(name) == <<"t", "/", "o", "/", "p">>

\* The goroutines that resolve names and the resolver before any call.
Workers == {"w1", "w2"}
NoCall == [pc |-> "idle", name |-> <<>>, repo |-> <<>>, how |-> "", done |-> 0]
NoResolver ==
  [hostRepoCache |-> <<>>, lookups |-> <<>>, w |-> [w \in Workers |-> NoCall],
   rets |-> {}]

\* A call returns repo for name.
Returns(w, name, repo, how) ==
  [resolver EXCEPT !.w[w] = [NoCall EXCEPT !.done = resolver.w[w].done + 1],
                   !.rets = @ \cup {[name |-> name, repo |-> repo, how |-> how]}]

\* getHostedRepositoryByNameWithCache up to the cache read: a hit returns.
ResolveBegin(w) ==
  /\ w \in cfg.goroutines
  /\ resolver.w[w].pc = "idle"
  /\ resolver.w[w].done < cfg.resolves
  /\ \E name \in cfg.names :
       LET normalized == normalizeGoModuleName(name)
           repo == getHostedRepositoryByCache(resolver.hostRepoCache, normalized)
       IN IF repo # <<>>
          THEN resolver' = Returns(w, name, repo, "cache")
          ELSE resolver' = [resolver EXCEPT !.w[w].pc = "lookup", !.w[w].name = name]
  /\ UNCHANGED <<git, cfg, remote, clone, repositories, goModules, storage, scoredModCache,
                 repoCache, call, pc, task, ret, results, calls, pushes, faults, version>>

\* ret := getHostedRepositoryByName(normalized), with requests that may fail.
Lookup(w) ==
  /\ resolver.w[w].pc = "lookup"
  /\ \E proxyOK \in BOOLEAN, tagOK \in BOOLEAN :
       LET normalized == normalizeGoModuleName(resolver.w[w].name)
           got == getHostedRepositoryByName(
                    normalized,
                    IF proxyOK THEN ProxyOrigin(normalized) ELSE <<>>,
                    IF tagOK THEN MetaTagRepo(normalized) ELSE <<>>)
       IN resolver' = [resolver EXCEPT !.w[w].pc = "store",
                                       !.w[w].repo = got.repo,
                                       !.w[w].how = got.how,
                                       !.lookups = Put(@, normalized, At(@, normalized) + 1)]
  /\ UNCHANGED <<git, cfg, remote, clone, repositories, goModules, storage, scoredModCache,
                 repoCache, call, pc, task, ret, results, calls, pushes, faults, version>>

\* setHostedRepositoryCache(normalized, ret); return ret.
Store(w) ==
  /\ resolver.w[w].pc = "store"
  /\ LET c == resolver.w[w]
         after == Returns(w, c.name, c.repo, c.how)
     IN resolver' = [after EXCEPT !.hostRepoCache =
                                    Put(@, normalizeGoModuleName(c.name), c.repo)]
  /\ UNCHANGED <<git, cfg, remote, clone, repositories, goModules, storage, scoredModCache,
                 repoCache, call, pc, task, ret, results, calls, pushes, faults, version>>

\* Module names: up to n of these segments, joined by "/".
Segments ==
  {<<"g", "o", "p", "k", "g", ".", "i", "n">>,
   <<"g", "o", "p", "k", "g", "X", "i", "n">>,
   <<"o">>, <<"p">>, <<"p", ".", "v", "1">>, <<"p", ".", "v">>}
RECURSIVE SegSeqs(_)
SegSeqs(n) ==
  IF n = 0 THEN {}
  ELSE LET shorter == SegSeqs(n - 1)
       IN {<<s>> : s \in Segments} \cup shorter
            \cup {q \o <<s>> : q \in shorter, s \in Segments}
Names(n) == {Join(q, "/") : q \in SegSeqs(n)}

(***************************************************************************)
(* runGoModGraph (modrank.go): the credentials of the `go mod graph`       *)
(* command.  The goroutines of the manifests of every repository task call *)
(* it on the one ModRank.                                                  *)
(***************************************************************************)
\* What the issuer can return.
Tokens == {"t1", "t2"}

NoGraph == [pc |-> "idle", tk |-> "", done |-> 0]
NoGit ==
  [mu |-> "", lastToken |-> "", file |-> "", writes |-> 0, w |-> [w \in Workers |-> NoGraph]]

\* A variant of canLock without the mutex.
canLockAlways(w) == w = w

\* gitAccessToken.mu.Lock returns for w: no goroutine holds the mutex.
canLock(w) == git.mu = ""

\* runGoModGraph returns in g: the deferred Unlock, when a token is configured.
graphReturns(g, w) ==
  [g EXCEPT !.mu = IF cfg.token THEN "" ELSE @,
            !.w[w] = [NoGraph EXCEPT !.done = g.w[w].done + 1]]

\* runGoModGraph up to the token: with a token configured the mutex is taken,
\* without one the command is started at once.
GraphBegin(w) ==
  /\ git.w[w].pc = "idle"
  /\ git.w[w].done < MaxGraphs
  /\ IF cfg.token
       THEN /\ canLock(w)
            /\ git' = [git EXCEPT !.mu = w, !.w[w].pc = "issue"]
       ELSE git' = [git EXCEPT !.w[w].pc = "run"]
  /\ UNCHANGED <<resolver, cfg, remote, clone, repositories, goModules, storage,
                 scoredModCache, repoCache, call, pc, task, ret, results, calls, pushes,
                 faults, version>>

\* gitAccessToken.issuer: a token, or an error that ends the call.
IssueToken(w) ==
  /\ git.w[w].pc = "issue"
  /\ \/ \E tk \in Tokens : git' = [git EXCEPT !.w[w].pc = "config", !.w[w].tk = tk]
     \/ git' = graphReturns(git, w)
  /\ UNCHANGED <<resolver, cfg, remote, clone, repositories, goModules, storage,
                 scoredModCache, repoCache, call, pc, task, ret, results, calls, pushes,
                 faults, version>>

\* The gitconfig of a token that is not lastToken is written, and the command
\* is started with GIT_CONFIG_GLOBAL.  os.MkdirAll may fail, and os.WriteFile
\* may fail with the file as it was or truncated; both end the call.
WriteGitConfig(w) ==
  /\ git.w[w].pc = "config"
  /\ IF git.lastToken # git.w[w].tk
       THEN \/ git' = [git EXCEPT !.file = git.w[w].tk, !.lastToken = git.w[w].tk,
                                  !.writes = @ + 1, !.w[w].pc = "run"]
            \/ git' = graphReturns(git, w)
            \/ git' = graphReturns([git EXCEPT !.file = "", !.writes = @ + 1], w)
       ELSE git' = [git EXCEPT !.w[w].pc = "run"]
  /\ UNCHANGED <<resolver, cfg, remote, clone, repositories, goModules, storage,
                 scoredModCache, repoCache, call, pc, task, ret, results, calls, pushes,
                 faults, version>>

\* cmd.CombinedOutput returns, and runGoModGraph with it.
GraphEnd(w) ==
  /\ git.w[w].pc = "run"
  /\ git' = graphReturns(git, w)
  /\ UNCHANGED <<resolver, cfg, remote, clone, repositories, goModules, storage,
                 scoredModCache, repoCache, call, pc, task, ret, results, calls, pushes,
                 faults, version>>

(***************************************************************************)
(* Specifications.                                                         *)
(***************************************************************************)
\* The state after New over an empty database file.  A configuration fixes the
\* options of New, the lists the calls are made with, and what the hosting side
\* holds and may do: the trees of the first commits, the trees a push can bring
\* and the repositories that change.
InitWith(configs) ==
  /\ cfg \in configs
  /\ remote \in [Repos -> [head : {NoHead, H1}, tree : cfg.trees, archived : {FALSE}]]
  /\ \A r \in Repos : remote[r].head = NoHead => remote[r].tree = "none"
  /\ \A r \in Repos \ cfg.movable : remote[r].tree = "single"
  /\ clone = [r \in Repos |-> None]
  /\ repositories = <<>>
  /\ goModules = <<>>
  /\ storage = NewStorage
  /\ scoredModCache = <<>>
  /\ repoCache = [r \in Repos |-> None]
  /\ call = Idle
  /\ pc = [r \in Repos |-> "idle"]
  /\ task = [r \in Repos |-> NoTask]
  /\ ret = None
  /\ results = <<>>
  /\ calls = 0
  /\ pushes = 0
  /\ faults = 0
  /\ version = 0
  /\ resolver = NoResolver
  /\ git = NoGit

\* The orchestrator with failing collaborators, over small trees.
Init ==
  InitWith([workerNum : {2}, githubAPICache : BOOLEAN, cleanupRepo : BOOLEAN,
            faults : {TRUE}, trees : {{"none", "single"}}, pushed : {{"none", "single"}},
            lists : {{<<"r1", "r2">>}}, movable : {{"r1"}}, foreign : {{}}, gen : {NoGen}])

Next ==
  \/ RunBegin
  \/ \E r \in Repos : ScanStart(r)
  \/ \E r \in Repos : Clone(r)
  \/ \E r \in Repos : Scan(r)
  \/ \E r \in Repos : SaveModules(r)
  \/ \E r \in Repos : SaveStatus(r)
  \/ RunEnd
  \/ UpdateBegin
  \/ \E r \in Repos : UpdateStart(r)
  \/ \E r \in Repos : UpdateTask(r)
  \/ UpdateEnd
  \/ \E r \in Repos : Push(r)
  \/ \E r \in Repos : Archive(r)

Spec == Init /\ [][Next]_vars

\* The scoring engine over richer graphs, with collaborators that do not fail:
\* Run and Score calls on one ModRank or on a new one, with pushes in between.
InitScore ==
  InitWith([workerNum : {1}, githubAPICache : {FALSE}, cleanupRepo : {TRUE},
            faults : {FALSE},
            trees : {{"chain", "cycle", "rooted", "diamond", "single"}},
            pushed : {{"single"}},
            lists : {{<<"r1">>, <<"r1", "r2">>}}, movable : {{"r1"}}, foreign : {{}}, gen : {NoGen}])

NextScore ==
  \/ RunBegin
  \/ \E r \in Repos : ScanStart(r)
  \/ \E r \in Repos : Clone(r)
  \/ \E r \in Repos : Scan(r)
  \/ \E r \in Repos : SaveModules(r)
  \/ \E r \in Repos : SaveStatus(r)
  \/ RunEnd
  \/ ScoreCall
  \/ New
  \/ \E r \in Repos : Push(r)

SpecScore == InitScore /\ [][NextScore]_vars

\* Run and the precheck in turn, one worker at a time, by collaborators that do
\* not fail, over a repository that is pushed to or archived in between and may
\* be hosted elsewhere than on GitHub.
InitStatus ==
  InitWith([workerNum : {1}, githubAPICache : BOOLEAN, cleanupRepo : BOOLEAN,
            faults : {FALSE}, trees : {{"none", "single"}}, pushed : {{"none", "single"}},
            lists : {{<<"r1", "r2">>}}, movable : {{"r1"}}, foreign : {{}, {"r1"}},
            gen : {NoGen}])

NextStatus ==
  \/ RunBegin
  \/ \E r \in Repos : ScanStart(r)
  \/ \E r \in Repos : Clone(r)
  \/ \E r \in Repos : Scan(r)
  \/ \E r \in Repos : SaveModules(r)
  \/ \E r \in Repos : SaveStatus(r)
  \/ RunEnd
  \/ UpdateBegin
  \/ \E r \in Repos : UpdateStart(r)
  \/ \E r \in Repos : UpdateTask(r)
  \/ UpdateEnd
  \/ \E r \in Repos : Push(r)
  \/ \E r \in Repos : Archive(r)

SpecStatus == InitStatus /\ [][NextStatus]_vars

\* The precheck alone, one worker at a time, with failing collaborators.
InitPrecheck ==
  InitWith([workerNum : {1}, githubAPICache : BOOLEAN, cleanupRepo : {FALSE},
            faults : {TRUE}, trees : {{"none", "single"}}, pushed : {{"none", "single"}},
            lists : {{<<"r1", "r2">>, <<"r2", "r1">>}}, movable : {{"r1"}}, foreign : {{}}, gen : {NoGen}])

NextPrecheck ==
  \/ UpdateBegin
  \/ \E r \in Repos : UpdateStart(r)
  \/ \E r \in Repos : UpdateTask(r)
  \/ UpdateEnd
  \/ \E r \in Repos : Push(r)
  \/ \E r \in Repos : Archive(r)

SpecPrecheck == InitPrecheck /\ [][NextPrecheck]_vars

\* The worker pool: Run and the precheck with one worker or two, both orders of
\* the list, failing collaborators, and a hosting side that does not change.
InitPool ==
  InitWith([workerNum : {1, 2}, githubAPICache : {FALSE}, cleanupRepo : {TRUE},
            faults : {TRUE}, trees : {{"single"}}, pushed : {{}},
            lists : {{<<"r1", "r2">>, <<"r2", "r1">>}}, movable : {{}}, foreign : {{}}, gen : {NoGen}])

NextPool ==
  \/ RunBegin
  \/ \E r \in Repos : ScanStart(r)
  \/ \E r \in Repos : Clone(r)
  \/ \E r \in Repos : Scan(r)
  \/ \E r \in Repos : SaveModules(r)
  \/ \E r \in Repos : SaveStatus(r)
  \/ RunEnd
  \/ UpdateBegin
  \/ \E r \in Repos : UpdateStart(r)
  \/ \E r \in Repos : UpdateTask(r)
  \/ UpdateEnd

SpecPool == InitPool /\ [][NextPool]_vars

\* The graph builder: the scan task of a Run, by collaborators that do not fail,
\* over a repository whose manifest is generated, up to the end of the task.
InitGraph ==
  InitWith([workerNum : {1}, githubAPICache : {FALSE}, cleanupRepo : {FALSE},
            faults : {FALSE}, trees : {{"gen", "gen2", "single"}}, pushed : {{}},
            lists : {{<<"r1", "r2">>}}, movable : {{"r1"}}, foreign : {{}}, gen : Gens])

NextGraph ==
  \/ RunBegin
  \/ \E r \in Repos : ScanStart(r)
  \/ \E r \in Repos : Clone(r)
  \/ \E r \in Repos : Scan(r)
  \/ \E r \in Repos : SaveModules(r)
  \/ \E r \in Repos : SaveStatus(r)

SpecGraph == InitGraph /\ [][NextGraph]_vars

\* The manifest goroutines of a scan in every order: the scan task of a Run over
\* trees of two and three manifests, one of which may be unreadable, by
\* collaborators that may panic.
InitManifests ==
  InitWith([workerNum : {2}, githubAPICache : {FALSE}, cleanupRepo : {FALSE},
            faults : BOOLEAN, trees : {{"gen2", "three", "single"}}, pushed : {{}},
            lists : {{<<"r1", "r2">>}}, movable : {{"r1"}}, foreign : {{}},
            gen : {[lines |-> <<1, 3>>, mode |-> "ok"], [lines |-> <<>>, mode |-> "unreadable"]}])

NextManifests ==
  \/ RunBegin
  \/ \E r \in Repos : ScanStart(r)
  \/ \E r \in Repos : Clone(r)
  \/ \E r \in Repos : ScanFork(r)
  \/ \E r \in Repos : \E p \in task[r].todo : ScanManifest(r, p)
  \/ \E r \in Repos : ScanJoin(r)
  \/ \E r \in Repos : SaveModules(r)
  \/ \E r \in Repos : SaveStatus(r)

SpecManifests == InitManifests /\ [][NextManifests]_vars

\* Run to its return, for the worker counts that WithWorker takes: no limit
\* (negative), zero, one and two, over repositories without commits or without
\* manifest.  Every goroutine that can take a step takes it in the end, and
\* every collaborator call returns, with or without an error.
InitLive ==
  InitWith([workerNum : {-1, 0, 1, 2}, githubAPICache : {FALSE}, cleanupRepo : {TRUE},
            faults : BOOLEAN, trees : {{"none"}}, pushed : {{}},
            lists : {{<<>>, <<"r1">>, <<"r1", "r2">>}}, movable : {Repos}, foreign : {{}},
            gen : {NoGen}])

NextLive ==
  \/ RunBegin
  \/ \E r \in Repos : ScanStart(r)
  \/ \E r \in Repos : Clone(r)
  \/ \E r \in Repos : Scan(r)
  \/ \E r \in Repos : SaveModules(r)
  \/ \E r \in Repos : SaveStatus(r)
  \/ RunEnd

SpecLive ==
  /\ InitLive
  /\ [][NextLive]_vars
  /\ WF_vars(\E r \in Repos : ScanStart(r))
  /\ WF_vars(\E r \in Repos : Clone(r))
  /\ WF_vars(\E r \in Repos : Scan(r))
  /\ WF_vars(\E r \in Repos : SaveModules(r))
  /\ WF_vars(\E r \in Repos : SaveStatus(r))
  /\ WF_vars(RunEnd)

\* The credentials of `go mod graph`: two goroutines that call runGoModGraph,
\* with and without a token issuer configured.
InitToken ==
  InitWith([workerNum : {2}, githubAPICache : {FALSE}, cleanupRepo : {FALSE},
            faults : {FALSE}, trees : {{"single"}}, pushed : {{}},
            lists : {{<<"r1">>}}, movable : {{}}, foreign : {{}}, gen : {NoGen},
            token : BOOLEAN])

NextToken ==
  \/ \E w \in Workers : GraphBegin(w)
  \/ \E w \in Workers : IssueToken(w)
  \/ \E w \in Workers : WriteGitConfig(w)
  \/ \E w \in Workers : GraphEnd(w)

SpecToken == InitToken /\ [][NextToken]_vars

\* Module identity across the commits of a repository: Runs by collaborators
\* that do not fail, with pushes in between.
InitID ==
  InitWith([workerNum : {1}, githubAPICache : {FALSE}, cleanupRepo : BOOLEAN,
            faults : {FALSE}, trees : {{"slashed", "chain", "single"}},
            pushed : {{"nested", "single"}},
            lists : {{<<"r1">>, <<"r1", "r2">>}}, movable : {{"r1"}}, foreign : {{}}, gen : {NoGen}])

NextID ==
  \/ RunBegin
  \/ \E r \in Repos : ScanStart(r)
  \/ \E r \in Repos : Clone(r)
  \/ \E r \in Repos : Scan(r)
  \/ \E r \in Repos : SaveModules(r)
  \/ \E r \in Repos : SaveStatus(r)
  \/ RunEnd
  \/ \E r \in Repos : Push(r)

SpecID == InitID /\ [][NextID]_vars

\* The hosted-repository resolver: two goroutines that resolve a name and its
\* sub-package, and one goroutine that resolves one name of any shape, over a
\* network whose requests may fail.
Sibling(name) == name \o <<"/", "o">>
SharedNames ==
  {<<"o", "/", "p">>, <<"o", "/", "o", "/", "p">>,
   <<"g", "o", "p", "k", "g", ".", "i", "n", "/", "o", "/", "p", ".", "v", "1">>}
InitResolve ==
  InitWith([workerNum : {1}, githubAPICache : {FALSE}, cleanupRepo : {FALSE},
            faults : {FALSE}, trees : {{"single"}}, pushed : {{}},
            lists : {{<<"r1">>}}, movable : {{}}, foreign : {{}}, gen : {NoGen},
            goroutines : {Workers}, resolves : {MaxResolve},
            names : {{n, Sibling(n)} : n \in SharedNames}]
           \cup
           [workerNum : {1}, githubAPICache : {FALSE}, cleanupRepo : {FALSE},
            faults : {FALSE}, trees : {{"single"}}, pushed : {{}},
            lists : {{<<"r1">>}}, movable : {{}}, foreign : {{}}, gen : {NoGen},
            goroutines : {{"w1"}}, resolves : {1},
            names : {{n} : n \in Names(MaxSegs)}])

NextResolve ==
  \/ \E w \in Workers : ResolveBegin(w)
  \/ \E w \in Workers : Lookup(w)
  \/ \E w \in Workers : Store(w)

SpecResolve == InitResolve /\ [][NextResolve]_vars


(***************************************************************************)
(* Properties of the scoring engine, over SpecScore.                       *)
(***************************************************************************)
\* The result of the latest Score that returned one.
Latest == results[Len(results)]

\* The GoModules table that the scan of tree t in repository r1 leaves in an
\* empty database.
TableOf(t) ==
  InsertOrUpdateGoModules(<<>>, scanGoModule(NameWithOwner("r1"), GoMod, Trees[t][GoMod]).mods)

\* The latest result is that of the first Score of a new ModRank, for a list with
\* r1, over a table that holds the scan of tree t and nothing else.
FreshOver(t) ==
  /\ results # <<>>
  /\ Latest.first
  /\ Latest.version = version
  /\ "r1" \in Range(Latest.repos)
  /\ goModules = TableOf(t)

\* A record of the ranking.
Rec(n, k) == [Name |-> <<n>>, Score |-> k]

\* The entries of a log that come before entry i and belong to the same root.
Before(log, i) == {j \in DOMAIN log : j < i /\ log[j].root = log[i].root}

\* C1: for the repository of weight 1 whose manifest declares A and whose graph
\* is A->B, B->C, the ranking is C 3, B 2, A 1; and in the latest Score a root
\* receives the weight w of its repository, and any other module receives one
\* more than the module through which the walk of that root reached it, that is
\* w+d for a module reached d edges below the root.
C1_DepthScores ==
  /\ FreshOver("chain") => Latest.ranking = <<Rec("C", 3), Rec("B", 2), Rec("A", 1)>>
  /\ results # <<>> =>
       \A i \in DOMAIN Latest.log :
         LET log == Latest.log
             heap == Latest.heap
             w == Weight(RepoByName(Latest.repos, heap[log[i].root].Repository))
         IN IF log[i].mod = log[i].root /\ Before(log, i) = {}
              THEN log[i].amount = w
              ELSE \E j \in Before(log, i) :
                     /\ log[i].mod \in Range(heap[log[j].mod].Refers)
                     /\ log[i].amount = log[j].amount + 1

\* The chain was scanned and scored by a new ModRank.
C1_Witness == FreshOver("chain") /\ Len(Latest.log) = 3

\* C2: in the walk of one root no module identity receives two increments.
C2_OncePerRoot ==
  results # <<>> =>
    \A i, j \in DOMAIN Latest.log :
      (i # j /\ Latest.log[i].root = Latest.log[j].root)
        => Latest.heap[Latest.log[i].mod].ID # Latest.heap[Latest.log[j].mod].ID

\* C3: for the cycle A->B, B->A no module is a root and the ranking holds neither
\* A nor B; when the cycle lies below a root R (R->A, A->B, B->A) the ranking is
\* B 3, A 2, R 1: the edge back to A adds nothing to A.
C3_CycleNeedsRoot ==
  /\ FreshOver("cycle") => Latest.ranking = <<>>
  /\ FreshOver("rooted") => Latest.ranking = <<Rec("B", 3), Rec("A", 2), Rec("R", 1)>>

\* The cycle was scanned and scored by a new ModRank.
C3_Witness == FreshOver("cycle") /\ DOMAIN goModules # {}

\* C3 as stated: for the cycle A->B, B->A the ranking has A with 1 and B with 2.
C3_Original ==
  FreshOver("cycle") => {Rec("A", 1), Rec("B", 2)} \subseteq Range(Latest.ranking)

\* C4: the ranking has one record per module name of the accumulator, its score
\* is the sum of the accumulator entries of the objects with that name, and the
\* scores do not increase along the list.
C4_FoldByName ==
  results # <<>> =>
    LET res == Latest
        names == {res.heap[a].Name : a \in DOMAIN res.scored}
    IN /\ Len(res.ranking) = Cardinality(names)
       /\ {res.ranking[i].Name : i \in DOMAIN res.ranking} = names
       /\ \A i \in DOMAIN res.ranking :
            res.ranking[i].Score =
              Sum(res.scored, {a \in DOMAIN res.scored : res.heap[a].Name = res.ranking[i].Name})
       /\ \A i, j \in DOMAIN res.ranking : i < j => res.ranking[i].Score >= res.ranking[j].Score

\* A ranking of several names, one of them the name of two module identities.
C4_Witness ==
  /\ results # <<>>
  /\ Len(Latest.ranking) > 1
  /\ \E a, b \in DOMAIN Latest.scored :
       /\ Latest.heap[a].Name = Latest.heap[b].Name
       /\ Latest.heap[a].ID # Latest.heap[b].ID

\* C5: two Scores in a row for the same list over the same table return the same
\* names with the same scores.
C5_Repeatable ==
  (/\ Len(results) = 2
   /\ results[1].version = results[2].version
   /\ results[1].repos = results[2].repos)
    => Range(results[1].ranking) = Range(results[2].ranking)

(***************************************************************************)
(* Properties of the orchestrator, over Spec.                              *)
(***************************************************************************)
\* The stored status of r records a head commit, and it is the head of the remote.
Recorded(r) ==
  /\ r \in DOMAIN repositories
  /\ repositories[r].HeadCommitHash # NoHead
  /\ repositories[r].HeadCommitHash = remote[r].head

\* The steps of scanRepo from the search for manifests on.
Scanning == {"scanning", "saveMods", "saveStatus"}

\* C6: in a Run, the task of a repository whose recorded head is the head of its
\* remote never reaches the search for manifests (it skips, or clones and then
\* skips, or fails), and its steps leave both tables as they are; with the
\* clone kept or removed, with the API cache or without.
C6_Resumable ==
  [][\A r \in Repos :
       (call.kind = "run" /\ Recorded(r) /\ pc'[r] # pc[r])
         => /\ pc'[r] \notin Scanning
            /\ repositories' = repositories
            /\ goModules' = goModules]_vars

\* A second Run skipped a repository that a scan had recorded.
C6_Witness ==
  /\ call.kind = "run"
  /\ Recorded("r1")
  /\ repositories["r1"].ExistsGoMod
  /\ pc["r1"] = "skipped"
  /\ DOMAIN goModules # {}

\* C7: once the stored status of a repository is archived, no step changes that
\* status or the clone, and a task for the repository, scan or precheck, never
\* clones, scans or updates: it starts and it ends.
C7_ArchivedStays ==
  [][\A r \in Repos :
       (r \in DOMAIN repositories /\ repositories[r].IsArchived)
         => /\ r \in DOMAIN repositories'
            /\ repositories'[r] = repositories[r]
            /\ clone'[r] = clone[r]
            /\ pc'[r] \in {pc[r]} \cup (({"pending", "checking", "idle"} \cup Terminal)
                                          \ {"scanned", "updated"})]_vars

\* A Run skipped a repository whose stored status is archived.
C7_Witness ==
  /\ call.kind = "run"
  /\ "r1" \in DOMAIN repositories
  /\ repositories["r1"].IsArchived
  /\ pc["r1"] = "skipped"

\* C8: in a Run no step changes the status or the clone of a repository whose
\* stored status says that it has no manifest, and its task can only skip and
\* end; and a step that turns the flag of a stored status to true is a step of
\* the precheck.
C8_NoGoModSkipped ==
  [][\A r \in Repos :
       /\ (call.kind = "run" /\ r \in DOMAIN repositories /\ ~repositories[r].ExistsGoMod)
            => /\ repositories'[r] = repositories[r]
               /\ clone'[r] = clone[r]
               /\ pc'[r] # pc[r] => pc'[r] \in {"skipped", "idle"}
       /\ (/\ r \in DOMAIN repositories
           /\ ~repositories[r].ExistsGoMod
           /\ repositories'[r].ExistsGoMod)
            => call.kind = "update"]_vars

\* A Run skipped a repository that is not archived and has no manifest on record.
C8_Witness ==
  /\ call.kind = "run"
  /\ "r1" \in DOMAIN repositories
  /\ ~repositories["r1"].ExistsGoMod
  /\ ~repositories["r1"].IsArchived
  /\ pc["r1"] = "skipped"

\* C9: the scan batch of a Run is never cancelled and holds no error, and a Run in
\* which a scan failed or panicked returns without error, every repository of
\* its list having come to an end, with a ranking.
C9_ScanErrorsSwallowed ==
  /\ call.kind = "run" => ~call.err /\ ~call.cancelled
  /\ (/\ ret # None
      /\ ret.kind = "run"
      /\ \E r \in Repos : ret.outcome[r] \in {"failed", "panicked"})
       => /\ ~ret.err
          /\ \A r \in Range(ret.repos) : ret.outcome[r] \in Terminal
          /\ results # <<>>
          /\ Latest.repos = ret.repos

\* A Run returned a ranking of the modules of r2 after the scan of r1 had failed.
C9_Witness ==
  /\ ret # None
  /\ ret.kind = "run"
  /\ ~ret.err
  /\ ret.outcome["r1"] \in {"failed", "panicked"}
  /\ ret.outcome["r2"] = "scanned"
  /\ results # <<>>
  /\ Latest.ranking # <<>>

\* C10: once a worker of the precheck batch has panicked, the batch is cancelled
\* and the workers that remain write no status.
C10_PanicCancelsBatch ==
  [][(call.kind = "update" /\ \E r \in Repos : pc[r] = "panicked")
       => call.cancelled /\ repositories' = repositories]_vars

(***************************************************************************)
(* Properties of the worker pool, over SpecPool.                           *)
(***************************************************************************)
\* C11: in a Run and in a precheck at most workerNum tasks have started and not
\* returned; and with one worker a task of the list has started only when every
\* task before it in the list has returned.
C11_BoundedPool ==
  call.kind \in {"run", "update"} =>
    /\ Cardinality(Running) <= cfg.workerNum
    /\ cfg.workerNum = 1 =>
         \A i, j \in DOMAIN call.repos :
           (i < j /\ pc[call.repos[j]] # "pending") => pc[call.repos[i]] \in Terminal

\* With one worker, the second scan of the list is in progress after the first
\* has come to its end.
C11_Witness ==
  /\ cfg.workerNum = 1
  /\ call.kind = "run"
  /\ Len(call.repos) = 2
  /\ pc[call.repos[1]] = "scanned"
  /\ pc[call.repos[2]] \in InProgress

\* C12: in a Run, a step that writes the score accumulator, hydrates modules or
\* returns a ranking is taken only when every scan task of the Run has been
\* started and has returned: no scan is in progress or still to start.
C12_ScoreAfterDrain ==
  [][(/\ call.kind = "run"
      /\ \/ scoredModCache' # scoredModCache
         \/ storage' # storage
         \/ results' # results)
       => /\ Running = {}
          /\ \A r \in Range(call.repos) : pc[r] \in Terminal]_vars

\* A Run with two workers has scanned both repositories and scored them.
C12_Witness ==
  /\ cfg.workerNum = 2
  /\ ret # None
  /\ ret.kind = "run"
  /\ \A r \in Repos : ret.outcome[r] = "scanned"
  /\ scoredModCache # <<>>
  /\ results # <<>>

\* C13: the two writes of a scan are one unit.  A scan that has written its
\* modules leaves its head in the stored status when it ends, and a scan that
\* ends without having written its modules does not leave its head there.
C13_WritesAreOneUnit ==
  [][\A r \in Repos :
       /\ (pc[r] = "saveStatus" /\ task[r].goMods # <<>> /\ pc'[r] # pc[r])
            => /\ r \in DOMAIN repositories'
               /\ repositories'[r].HeadCommitHash = task[r].head
       /\ (pc[r] \in {"scanning", "saveMods"} /\ pc'[r] \in {"failed", "panicked"})
            => ~(r \in DOMAIN repositories' /\ repositories'[r].HeadCommitHash = task[r].head)]_vars

(***************************************************************************)
(* Properties of the stored graph.                                         *)
(***************************************************************************)
\* The IDs of the modules without referer in the graphs of the manifests of the
\* tree that repository r holds at its head.
ManifestRoots(r) ==
  {m.ID : m \in {x \in Range(scanManifests(r, Trees[remote[r].tree],
                                           SortStrings(DOMAIN Trees[remote[r].tree])).mods) :
                   IsRoot(x)}}

\* The IDs of the objects that FindRootGoModules returns to a new SQLiteStorage.
FoundRoots ==
  LET found == FindRootGoModules(goModules, CHOOSE o \in Orders(RootRows(goModules)) : TRUE,
                                 NewStorage)
  IN {found.st.heap[a].ID : a \in Range(found.roots)}

\* C14: a stored module is a root exactly when its referer list is empty, and
\* once every repository on record has been scanned at the head of its remote,
\* the roots that FindRootGoModules returns are the modules without referer of
\* the graphs of their manifests, no more and no fewer.
C14_RootsAreManifestRoots ==
  /\ \A id \in DOMAIN goModules : goModules[id].IsRoot <=> goModules[id].Referers = <<>>
  /\ (call.kind = "idle" /\ \A r \in DOMAIN repositories : Recorded(r))
       => FoundRoots = UNION {ManifestRoots(r) : r \in DOMAIN repositories}

(***************************************************************************)
(* Properties of the graph builder, over SpecGraph.  The modules that the   *)
(* scan of repository r built are in task[r].goMods from the end of the    *)
(* scan to the end of the task.                                            *)
(***************************************************************************)
\* The scan of r has built the graphs of its manifests.
Built(r) == pc[r] \in {"saveMods", "saveStatus"}

\* The manifests of the clone of r, by path.
ManifestsOf(r) == Trees[clone[r].tree]

\* The modules built for the manifest at path p of r, and the roots among them.
ModsAt(r, p) == {m \in Range(task[r].goMods) : m.GoModPath = p}
RootsAt(r, p) == {m \in ModsAt(r, p) : IsRoot(m)}

Generated(r) == clone[r] # None /\ clone[r].tree \in {"gen", "gen2"}

\* The generated output has a line that is not empty and does not split into
\* two tokens.
HasBadLine ==
  /\ cfg.gen.mode = "ok"
  /\ \E i \in DOMAIN cfg.gen.lines :
       /\ GraphLines[cfg.gen.lines[i]] # <<>>
       /\ Len(Split(GraphLines[cfg.gen.lines[i]], " ")) # 2

\* The modules of the manifest in the subdirectory of tree gen2, scanned alone.
SubMods(r) == Range(scanGoModule(NameWithOwner(r), SubGoMod, Trees["gen2"][SubGoMod]).mods)

\* The rows of the table that belong to the manifest at path p of r.
RowsAt(r, p) ==
  {id \in DOMAIN goModules :
     goModules[id].NameWithOwner = NameWithOwner(r) /\ goModules[id].GoModPath = p}

\* The stored status of r has the head of the clone and says there is a manifest.
StatusSaved(r) ==
  /\ r \in DOMAIN repositories
  /\ repositories[r].HeadCommitHash = clone[r].head
  /\ repositories[r].ExistsGoMod

\* C16: when the output of a manifest has a line that does not split into two
\* tokens, the scan builds no module for that manifest, whatever lines come
\* before; the task does not fail; the modules of the other manifest are built
\* as if it were alone; and at the end of the task the table holds the rows of
\* the other manifest, none of the manifest with the line, and the status has
\* the new head.
C16_BadLineAbortsManifest ==
  \A r \in Repos :
    (Generated(r) /\ HasBadLine) =>
      /\ pc[r] \notin {"failed", "panicked"}
      /\ Built(r) =>
           /\ ModsAt(r, GoMod) = {}
           /\ clone[r].tree = "gen2" => Range(task[r].goMods) = SubMods(r)
      /\ pc[r] = "scanned" =>
           /\ RowsAt(r, GoMod) = {}
           /\ clone[r].tree = "gen2" => RowsAt(r, SubGoMod) = {m.ID : m \in SubMods(r)}
           /\ StatusSaved(r)

\* A scan ended after a manifest with the lines `A@v1 B@v1` and `A@v1`, next to
\* a second manifest whose two modules are stored.
C16_Witness ==
  /\ cfg.gen = [lines |-> <<3, 5>>, mode |-> "ok"]
  /\ pc["r1"] = "scanned"
  /\ clone["r1"].tree = "gen2"
  /\ Cardinality(RowsAt("r1", SubGoMod)) = 2
  /\ StatusSaved("r1")

\* C17: when `go mod graph` fails for a manifest, the scan builds no module for
\* it and the task does not fail; the modules of the other manifest are built
\* as if it were alone, and at the end of the task the table holds their rows,
\* none of the failing manifest, and the status has the new head.
C17_GraphFailureIsSoft ==
  \A r \in Repos :
    (Generated(r) /\ cfg.gen.mode = "graphFails") =>
      /\ pc[r] \notin {"failed", "panicked"}
      /\ Built(r) =>
           /\ ModsAt(r, GoMod) = {}
           /\ clone[r].tree = "gen2" => Range(task[r].goMods) = SubMods(r)
      /\ pc[r] = "scanned" =>
           /\ RowsAt(r, GoMod) = {}
           /\ clone[r].tree = "gen2" => RowsAt(r, SubGoMod) = {m.ID : m \in SubMods(r)}
           /\ StatusSaved(r)

\* A scan ended after `go mod graph` had failed for one of its two manifests; the
\* two modules of the other are stored.
C17_Witness ==
  /\ cfg.gen.mode = "graphFails"
  /\ pc["r1"] = "scanned"
  /\ clone["r1"].tree = "gen2"
  /\ Cardinality(RowsAt("r1", SubGoMod)) = 2
  /\ StatusSaved("r1")

\* The lines of the generated output, each as its list of tokens.
GenLines == [i \in DOMAIN cfg.gen.lines |-> Split(GraphLines[cfg.gen.lines[i]], " ")]

\* The two-token lines of the generated output.
PairLines == {i \in DOMAIN GenLines : Len(GenLines[i]) = 2}

\* The number of "@" in a token.
Ats(t) == Cardinality({i \in DOMAIN t : t[i] = "@"})

\* The generated manifest was scanned to the end: the output was produced and
\* every line that is not empty has two tokens.
ScannedThrough(r) ==
  /\ Generated(r)
  /\ Built(r)
  /\ cfg.gen.mode = "ok"
  /\ ~HasBadLine

\* The module built for the generated manifest of r whose ModPath is the token t.
HasModule(r, t) == \E m \in ModsAt(r, GoMod) : ModPath(m) = t

\* In the graph built for the generated manifest of r, the module of token t
\* refers to the module of token u.
HasEdge(r, t, u) ==
  \E m, n \in ModsAt(r, GoMod) :
    /\ ModPath(m) = t
    /\ ModPath(n) = u
    /\ n.ID \in Range(m.Refers)
    /\ m.ID \in Range(n.Referers)

\* C18: a token that does not have exactly one "@" gives no module, and the
\* line it stands on gives no edge, but the scan goes on: the other token of
\* that line gives its module just as it does on a line of its own, and two
\* modules are linked exactly when a line names both, caller first.
C18_BadTokenSkipped ==
  \A r \in Repos :
    ScannedThrough(r) =>
      /\ \A m \in ModsAt(r, GoMod) : Ats(ModPath(m)) = 1
      /\ \A i \in PairLines : \A k \in {1, 2} :
           Ats(GenLines[i][k]) # 1 =>
             /\ ~HasModule(r, GenLines[i][k])
             /\ ~HasEdge(r, GenLines[i][1], GenLines[i][2])
             /\ HasModule(r, GenLines[i][3 - k])
                  <=> newGoModule(NameWithOwner(r), GoMod, <<"D">>,
                                  GenLines[i][3 - k], <<>>).node # NoNode
      /\ \A m, n \in ModsAt(r, GoMod) :
           HasEdge(r, ModPath(m), ModPath(n))
             <=> \E i \in PairLines : GenLines[i] = <<ModPath(m), ModPath(n)>>

\* The output `A@v1 B`, `B@v1 A@v1` was scanned: A and B are built, B refers to A
\* and nothing else is linked.
C18_Witness ==
  /\ cfg.gen = [lines |-> <<6, 4>>, mode |-> "ok"]
  /\ ScannedThrough("r1")
  /\ Cardinality(ModsAt("r1", GoMod)) = 2
  /\ HasEdge("r1", Tok("B"), Tok("A"))
  /\ ~HasEdge("r1", Tok("A"), Tok("B"))

\* C19: no module built for a manifest has the name that the manifest declares,
\* nor the name go or toolchain.
C19_NoSelfNoKeyword ==
  \A r \in Repos :
    (Generated(r) /\ Built(r)) =>
      \A m \in ModsAt(r, GoMod) :
        /\ m.Name # ManifestsOf(r)[GoMod].modName
        /\ m.Name # <<"g", "o">>
        /\ m.Name # <<"t", "o", "o", "l", "c", "h", "a", "i", "n">>

(***************************************************************************)
(* Properties of the module identity, over SpecID.                         *)
(***************************************************************************)
\* What an ID is made of, for a module built by a scan and for a stored row.
TupleOf(m) == <<m.Repository, m.GoModPath, m.Name, m.Version>>
RowTuple(id) ==
  <<goModules[id].NameWithOwner, goModules[id].GoModPath,
    goModules[id].ModuleName, goModules[id].ModuleVersion>>

\* C20: two module occurrences have the same ID exactly when they have the same
\* repository, manifest path, name and version; taken for the modules that a
\* scan has built, among themselves and against the rows already stored.
C20_IDNamesOneTuple ==
  \A r \in Repos :
    Built(r) =>
      /\ \A m, n \in Range(task[r].goMods) : m.ID = n.ID <=> TupleOf(m) = TupleOf(n)
      /\ \A m \in Range(task[r].goMods) : \A id \in DOMAIN goModules :
           m.ID = id <=> TupleOf(m) = RowTuple(id)


(***************************************************************************)
(* The hosted-repository resolver.                                         *)
(***************************************************************************)
\* The name cut before its third "/", whole when it has fewer.
SlashesOf(name) == {i \in DOMAIN name : name[i] = "/"}
FirstThree(name) ==
  LET third == {i \in SlashesOf(name) : Cardinality({j \in SlashesOf(name) : j < i}) = 2}
  IN IF third = {} THEN name
     ELSE SubSeq(name, 1, (CHOOSE i \in third : TRUE) - 1)

\* C21 (as the code has it): a resolver call looks a name up only when the
\* cache held nothing for its first three segments at the call's read, so the
\* lookups of one normalized name are at most one per goroutine, and a call
\* that finds the cache filled returns what the cache holds.
C21_LookupOnlyOnMiss ==
  [][/\ \A n \in DOMAIN resolver'.lookups :
          resolver'.lookups[n] <= Cardinality(cfg.goroutines)
     /\ \A w \in Workers :
          (resolver.w[w].pc = "idle" /\ resolver'.w[w].pc = "lookup")
            => FirstThree(resolver'.w[w].name) \notin DOMAIN resolver.hostRepoCache
     /\ \A e \in resolver'.rets \ resolver.rets :
          e.how = "cache" => e.repo = resolver.hostRepoCache[FirstThree(e.name)]]_vars

\* C21 witness: a name and its sub-package were resolved with one lookup, the
\* second call answered from the cache.
C21_Witness ==
  \E e1 \in resolver.rets, e2 \in resolver.rets :
    /\ e1.name # e2.name
    /\ FirstThree(e1.name) = FirstThree(e2.name)
    /\ e1.how # "cache"
    /\ e2.how = "cache"
    /\ e2.repo = e1.repo
    /\ resolver.lookups[FirstThree(e1.name)] = 1

\* C21 as stated: names with the same first three segments cost one lookup in
\* total and all calls return the same repository, concurrent calls included.
C21_Original ==
  /\ \A n \in DOMAIN resolver.lookups : resolver.lookups[n] <= 1
  /\ \A e1 \in resolver.rets, e2 \in resolver.rets :
       FirstThree(e1.name) = FirstThree(e2.name) => e1.repo = e2.repo

\* C22 (as the code has it): a resolver call always returns a repository name,
\* and when the proxy, the gopkg.in patterns and the meta tag all give nothing
\* it returns the first three segments of the module name, which is the name
\* itself when it has no more than three.
C22_FallsBackToNormalized ==
  \A e \in resolver.rets :
    /\ e.repo # <<>>
    /\ e.how = "name" => e.repo = FirstThree(e.name)
    /\ (e.how = "name" /\ Cardinality(SlashesOf(e.name)) <= 2) => e.repo = e.name

\* C22 witness: a name of four segments fell back to its first three.
C22_Witness ==
  \E e \in resolver.rets :
    /\ e.how = "name"
    /\ Cardinality(SlashesOf(e.name)) = 3
    /\ e.repo = FirstThree(e.name)
    /\ e.repo # e.name

\* C22 as stated: when all three strategies fail the result is the module name
\* exactly as passed in.
C22_Original ==
  \A e \in resolver.rets : e.how = "name" => e.repo = e.name

\* A segment of the shape <pkg>.v<N>, and its <pkg>.
Versioned(seg) == \E e \in 1..Len(seg) : VersionAfter(seg, e)
Stem(seg) == SubSeq(seg, 1, CHOOSE e \in 1..Len(seg) : VersionAfter(seg, e))
GoPkgIn == <<"g", "o", "p", "k", "g", ".", "i", "n">>

\* C23: when the pattern step is reached, gopkg.in/<owner>/<pkg>.v<N> gives
\* github.com/<owner>/<pkg>, gopkg.in/<pkg>.v<N> gives github.com/go-<pkg>/<pkg>,
\* and a name of any other shape gets nothing from the step.
C23_RedirectorShapes ==
  \A e \in resolver.rets :
    e.how \in {"pkgin", "tag", "name"} =>
      LET segs == Split(FirstThree(e.name), "/")
      IN IF Len(segs) = 3 /\ segs[1] = GoPkgIn /\ Versioned(segs[3])
         THEN /\ e.how = "pkgin"
              /\ e.repo = GitHubCom \o <<"/">> \o segs[2] \o <<"/">> \o Stem(segs[3])
         ELSE IF Len(segs) = 2 /\ segs[1] = GoPkgIn /\ Versioned(segs[2])
         THEN /\ e.how = "pkgin"
              /\ e.repo = GitHubCom \o <<"/", "g", "o", "-">> \o Stem(segs[2])
                            \o <<"/">> \o Stem(segs[2])
         ELSE e.how # "pkgin"

(***************************************************************************)
(* Failures of a scan.                                                     *)
(***************************************************************************)
\* C24: a credential that cannot be issued aborts the run: when repo.Clone
\* fails, as it does when the auth token issuer fails, the Run in progress is
\* left with an error to return.
C24_ClonedWithoutTokenAbortsRun ==
  [][\A r \in Repos :
       (call.kind = "run" /\ pc[r] = "cloning" /\ pc'[r] = "failed") => call'.err]_vars

\* C25: a panic in a repository's scan ends that scan with nothing persisted
\* afterwards: once the goroutine of one of its manifests has panicked, no step
\* of the repository's task writes the GoModules or the Repositories table.
C25_PanicAbandonsScan ==
  [][\A r \in Repos :
       (task[r].lost # <<>> /\ pc'[r] # pc[r])
         => (goModules' = goModules /\ repositories' = repositories)]_vars

\* C26: a clone of a remote without commits ends the scan as a no-op, a clone
\* that fails ends it with an error; neither writes a module or a status, and
\* neither puts an error into the group of the Run: the other tasks stay as
\* they are.
C26_CloneFailureWritesNothing ==
  [][\A r \in Repos :
       (call.kind = "run" /\ pc[r] = "cloning" /\ pc'[r] # "cloning")
         => /\ (remote[r].head = NoHead /\ faults' = faults) => pc'[r] = "skipped"
            /\ (faults' # faults) => pc'[r] \in {"failed", "panicked"}
            /\ (remote[r].head = NoHead \/ pc'[r] = "failed")
                 => /\ goModules' = goModules
                    /\ repositories' = repositories
                    /\ call'.err = call.err
                    /\ call'.cancelled = call.cancelled
                    /\ \A q \in Repos \ {r} : pc'[q] = pc[q]]_vars

\* C26 witness: the clone of an empty remote ended the scan of its repository
\* as a no-op, with no row written for it, and the other repository was scanned.
C26_Witness ==
  \E r \in Repos, q \in Repos :
    /\ q # r
    /\ call.kind = "run"
    /\ pc[r] = "skipped"
    /\ remote[r].head = NoHead
    /\ clone[r] = EmptyDir
    /\ r \notin DOMAIN repositories
    /\ pc[q] = "scanned"

\* C27: with cleanup configured, the clone path of a repository is gone when
\* its scan has returned, however it ended.
C27_PathRemovedOnExit ==
  cfg.cleanupRepo => \A r \in Repos : pc[r] \in Terminal => clone[r] = None

(***************************************************************************)
(* The walk of one root.                                                   *)
(***************************************************************************)
\* The depth at which the depth-first walk over the Refers lists `refs`, taken
\* in their order, first reaches each module identity: ID -> depth.
RECURSIVE FirstDepths(_, _, _, _)
FirstDepths(heap, refs, d, seen) ==
  IF refs = <<>> THEN seen
  ELSE IF heap[Head(refs)].ID \in DOMAIN seen
    THEN FirstDepths(heap, Tail(refs), d, seen)
  ELSE FirstDepths(heap, Tail(refs), d,
                   FirstDepths(heap, heap[Head(refs)].Refers, d + 1,
                               Put(seen, heap[Head(refs)].ID, d)))

\* C28: in the latest Score every Refers list is in ascending order, and every
\* amount a module receives in the walk of a root is the weight of the root's
\* repository plus the depth at which the depth-first walk over the Refers lists
\* first reaches the module; in the diamond P->M, P->Q, M->Q that is depth 2
\* for Q, through M, not the depth 1 of the edge from P.
C28_FirstPathDepth ==
  results # <<>> =>
    /\ \A a \in DOMAIN Latest.heap : \A i, j \in DOMAIN Latest.heap[a].Refers :
         i < j => StrLess(Latest.heap[Latest.heap[a].Refers[i]].ID,
                          Latest.heap[Latest.heap[a].Refers[j]].ID)
    /\ \A i \in DOMAIN Latest.log :
         LET e == Latest.log[i]
             heap == Latest.heap
             w == Weight(RepoByName(Latest.repos, heap[e.root].Repository))
         IN e.amount = w + FirstDepths(heap, heap[e.root].Refers, 1,
                                       heap[e.root].ID :> 0)[heap[e.mod].ID]
    /\ FreshOver("diamond") => Latest.ranking = <<Rec("Q", 3), Rec("M", 2), Rec("P", 1)>>

(***************************************************************************)
(* The edges of a built graph.                                             *)
(***************************************************************************)
\* newGoModule gives a module for the token t of the generated manifest of r.
Resolves(r, t) == newGoModule(NameWithOwner(r), GoMod, <<"D">>, t, <<>>).node # NoNode

\* The module of the manifest at path p of r that has the given ID.
ModOf(r, p, id) == CHOOSE n \in ModsAt(r, p) : n.ID = id

\* C29: in every graph built, n is in the Refers of m exactly when m is in the
\* Referers of n, and every module of a Refers or Referers list is in the list
\* returned for the manifest; for the generated manifest, a line gives an edge
\* from its first token's module to its second's exactly when both tokens
\* resolve to modules, and there is no other edge.
C29_EdgesSymmetricClosed ==
  \A r \in Repos :
    Built(r) =>
      /\ \A p \in DOMAIN ManifestsOf(r) :
           /\ \A m, n \in ModsAt(r, p) :
                n.ID \in Range(m.Refers) <=> m.ID \in Range(n.Referers)
           /\ \A m \in ModsAt(r, p) :
                \A id \in Range(m.Refers) \cup Range(m.Referers) :
                  \E n \in ModsAt(r, p) : n.ID = id
      /\ ScannedThrough(r) =>
           /\ \A i \in PairLines :
                (Resolves(r, GenLines[i][1]) /\ Resolves(r, GenLines[i][2]))
                  <=> HasEdge(r, GenLines[i][1], GenLines[i][2])
           /\ \A m, n \in ModsAt(r, GoMod) :
                n.ID \in Range(m.Refers)
                  => \E i \in PairLines : GenLines[i] = <<ModPath(m), ModPath(n)>>

\* C29 witness: the lines `D A@v1` and `A@v1 B@v1` were scanned: one edge, from A
\* to B, and none for the line whose first token is the declared module.
C29_Witness ==
  /\ ScannedThrough("r1")
  /\ cfg.gen.lines = <<1, 3>>
  /\ HasEdge("r1", Tok("A"), Tok("B"))
  /\ Cardinality(ModsAt("r1", GoMod)) = 2

\* C30: the Refers and the Referers of every module built are in strictly
\* ascending name@version order, so no member comes twice; and for the generated
\* manifest they hold the modules that the lines name as callee of the module,
\* and as its caller, in whatever order the lines come.
C30_ListsAreSortedSets ==
  \A r \in Repos :
    Built(r) =>
      /\ \A p \in DOMAIN ManifestsOf(r) : \A m \in ModsAt(r, p) :
           /\ \A i, j \in DOMAIN m.Refers :
                i < j => StrLess(ModPath(ModOf(r, p, m.Refers[i])),
                                 ModPath(ModOf(r, p, m.Refers[j])))
           /\ \A i, j \in DOMAIN m.Referers :
                i < j => StrLess(ModPath(ModOf(r, p, m.Referers[i])),
                                 ModPath(ModOf(r, p, m.Referers[j])))
      /\ ScannedThrough(r) =>
           \A m \in ModsAt(r, GoMod) :
             /\ Range(m.Refers) =
                  {n.ID : n \in {x \in ModsAt(r, GoMod) :
                                   \E i \in PairLines :
                                     GenLines[i] = <<ModPath(m), ModPath(x)>>}}
             /\ Range(m.Referers) =
                  {n.ID : n \in {x \in ModsAt(r, GoMod) :
                                   \E i \in PairLines :
                                     GenLines[i] = <<ModPath(x), ModPath(m)>>}}

\* C30 witness: the lines `A@v1 C@v1` and `A@v1 B@v1` were scanned in that order,
\* and the Refers of A are B, C.
C30_Witness ==
  /\ ScannedThrough("r1")
  /\ cfg.gen.lines = <<13, 3>>
  /\ \E m \in ModsAt("r1", GoMod) :
       /\ ModPath(m) = Tok("A")
       /\ Len(m.Refers) = 2
       /\ ModPath(ModOf("r1", GoMod, m.Refers[1])) = Tok("B")
       /\ ModPath(ModOf("r1", GoMod, m.Refers[2])) = Tok("C")

(***************************************************************************)
(* The scope of the module cache.                                          *)
(***************************************************************************)
\* The tokens of the generated output that newGoModule makes a module of.
ResolvedTokens(r) ==
  {t \in {GenLines[i][k] : i \in PairLines, k \in {1, 2}} : Resolves(r, t)}

\* The modules that the scan of the tree of r builds, manifest by manifest.
ScanOf(r) ==
  Range(scanManifests(r, Trees[clone[r].tree], SortStrings(DOMAIN Trees[clone[r].tree])).mods)

\* C31: the list built by the scan of a repository has one module for each
\* name@version of a manifest, for the generated manifest one for each token
\* that resolves, however often the token stands in the lines; the modules of
\* two manifests have different IDs also when name@version is the same; and
\* once two repositories are stored, each module of either has its own row.
C31_DedupPerManifest ==
  /\ \A r \in Repos :
       Built(r) =>
         /\ Cardinality({<<m.GoModPath, ModPath(m)>> : m \in Range(task[r].goMods)})
              = Len(task[r].goMods)
         /\ \A m, n \in Range(task[r].goMods) :
              m.GoModPath # n.GoModPath => m.ID # n.ID
         /\ ScannedThrough(r) =>
              {ModPath(m) : m \in ModsAt(r, GoMod)} = ResolvedTokens(r)
  /\ (\A r \in Repos : pc[r] = "scanned") =>
       \A r \in Repos : \A m \in ScanOf(r) :
         /\ m.ID \in DOMAIN goModules
         /\ RowTuple(m.ID) = TupleOf(m)

\* C31 witness: both repositories are stored; the first has the lines
\* `A@v1 C@v1`, `A@v1 B@v1` in go.mod next to a second manifest that names C@v1,
\* the second names C@v1 too: three rows for C@v1 and one for A@v1.
C31_Witness ==
  /\ \A r \in Repos : pc[r] = "scanned"
  /\ clone["r1"].tree = "gen2"
  /\ cfg.gen = [lines |-> <<13, 3>>, mode |-> "ok"]
  /\ Cardinality({id \in DOMAIN goModules :
                    goModules[id].ModuleName = <<"C">>}) = 3
  /\ Cardinality({id \in DOMAIN goModules :
                    goModules[id].ModuleName = <<"A">>}) = 1

\* C32: when go.mod of a repository cannot be read, the scan of the repository
\* fails before anything is stored: no row for the modules of the manifest that
\* was scanned next to it, and no status.
C32_HardErrorPersistsNothing ==
  \A r \in Repos :
    (Generated(r) /\ cfg.gen.mode = "unreadable") =>
      /\ pc[r] \notin {"saveMods", "saveStatus", "scanned"}
      /\ RowsAt(r, GoMod) = {}
      /\ RowsAt(r, SubGoMod) = {}
      /\ r \notin DOMAIN repositories

\* C32 witness: the scan of the repository with an unreadable go.mod and a
\* second manifest of two modules has failed, and the other repository is stored.
C32_Witness ==
  /\ pc["r1"] = "failed"
  /\ clone["r1"].tree = "gen2"
  /\ cfg.gen.mode = "unreadable"
  /\ Cardinality(SubMods("r1")) = 2
  /\ pc["r2"] = "scanned"
  /\ "r2" \in DOMAIN repositories

\* What the graph building of every manifest of the clone of r returned, but for
\* the manifests whose goroutine panicked, in path order.
ReturnedBy(r) ==
  scanManifests(r, Trees[clone[r].tree],
                SelectSeq(SortStrings(DOMAIN Trees[clone[r].tree]),
                          LAMBDA p : p \notin task[r].recovered)).mods

\* How many times m is in the list q.
Times(q, m) == Cardinality({i \in DOMAIN q : q[i] = m})

\* C33: in whatever order the goroutines of the manifests of a repository
\* return, the list given to storage holds every module that a scanGoModule
\* returned exactly as many times as it was returned, and the table after
\* InsertOrUpdateGoModules is that of the path order.
C33_AppendsKeepEveryModule ==
  \A r \in Repos :
    pc[r] = "saveMods" =>
      /\ Len(task[r].goMods) = Len(ReturnedBy(r))
      /\ \A m \in Range(ReturnedBy(r)) \cup Range(task[r].goMods) :
           Times(task[r].goMods, m) = Times(ReturnedBy(r), m)
      /\ InsertOrUpdateGoModules(goModules, task[r].goMods)
           = InsertOrUpdateGoModules(goModules, ReturnedBy(r))

\* C33 witness: the three manifests of a repository have returned, the one of
\* the last path first, and the list of their seven modules is given to storage.
C33_Witness ==
  /\ pc["r1"] = "saveMods"
  /\ clone["r1"].tree = "three"
  /\ task["r1"].lost = <<>>
  /\ Len(task["r1"].goMods) = 7
  /\ task["r1"].goMods[1].GoModPath = OtherGoMod
  /\ task["r1"].goMods[7].GoModPath = GoMod

\* The precheck task of r has just written that r, not archived, has a manifest,
\* and the remote head is not the head of the status.
Prechecked(r) ==
  /\ call.kind = "update"
  /\ pc[r] = "updated"
  /\ repositories[r].ExistsGoMod
  /\ ~repositories[r].IsArchived
  /\ remote[r].head # repositories[r].HeadCommitHash

\* C34: once the precheck has written that a repository has a manifest, keeping
\* the recorded head, which is not the remote head, the scan task of the next
\* Run goes on to the clone.
C34_PrecheckedIsCloned ==
  \A r \in Repos : Prechecked(r) => scanRepoBegin(r) = "cloning"

\* The same for the repositories without a clone directory.
C34_WithoutCloneDirectory ==
  \A r \in Repos : (Prechecked(r) /\ clone[r] = None) => scanRepoBegin(r) = "cloning"

\* The precheck task of r returns in this step.
Checked(r) == call.kind = "update" /\ pc[r] = "checking" /\ pc'[r] # "checking"

\* C35: the precheck task of a repository writes no status when the repository
\* is not on GitHub, or its status says archived, or says that it has a manifest,
\* or has the remote head, which is not empty; and a status that it writes for a
\* repository that is not archived has the head of the status before, the empty
\* head when there was none.
C35_PrecheckKeepsHead ==
  [][\A r \in Repos :
       Checked(r) =>
         LET repoStat == FindRepositoryByName(r)
         IN /\ (\/ ~IsGitHubRepository(r)
                \/ repoStat # None /\ repoStat.IsArchived
                \/ repoStat # None /\ repoStat.ExistsGoMod
                \/ repoStat # None /\ remote[r].head # NoHead
                                   /\ repoStat.HeadCommitHash = remote[r].head)
               => repositories' = repositories
            /\ (repositories' # repositories /\ ~repositories'[r].IsArchived)
               => /\ repositories'[r].HeadCommitHash =
                       (IF repoStat = None THEN NoHead ELSE repoStat.HeadCommitHash)
                  /\ \A q \in Repos \ {r} :
                       FindRepositoryByName(q)' = FindRepositoryByName(q)]_vars

\* C35 witness: the precheck has written that a repository has a manifest and
\* kept the head of the scan before the push, and it has left alone the status
\* of the other repository, which says that it has a manifest.
C35_Witness ==
  /\ call.kind = "update"
  /\ pc = [r1 |-> "updated", r2 |-> "skipped"]
  /\ repositories["r1"] = [HeadCommitHash |-> H1, IsArchived |-> FALSE, ExistsGoMod |-> TRUE]
  /\ remote["r1"].head = H2
  /\ repositories["r2"].ExistsGoMod

\* The IDs of the objects of a list.
IDsOf(heap, list) == [i \in DOMAIN list |-> heap[list[i]].ID]

\* C36: over tables with cycles too, a Score returns without error, every object
\* that its hydration allocated has, when it returns, an object for every ID of
\* the Refers and of the Referers of its row, in the order of the row, and what
\* it returns is a ranking.
C36_HydrationCompletes ==
  [][storage' # storage =>
       /\ ~storage'.err
       /\ ret' # None /\ ~ret'.err
       /\ \A a \in DOMAIN storage'.heap :
            /\ Range(storage'.heap[a].Refers) \subseteq DOMAIN storage'.heap
            /\ Range(storage'.heap[a].Referers) \subseteq DOMAIN storage'.heap
            /\ a > Len(storage.heap) =>
                 /\ IDsOf(storage'.heap, storage'.heap[a].Refers)
                      = goModules[storage'.heap[a].ID].Refers
                 /\ IDsOf(storage'.heap, storage'.heap[a].Referers)
                      = goModules[storage'.heap[a].ID].Referers]_vars

\* C36 witness: the first Score of a ModRank has returned the ranking of the
\* cycle below a root, and two objects of its heap refer to each other.
C36_Witness ==
  /\ FreshOver("rooted")
  /\ Latest.ranking # <<>>
  /\ \E a, b \in DOMAIN storage.heap :
       /\ a # b
       /\ b \in Range(storage.heap[a].Refers)
       /\ a \in Range(storage.heap[b].Refers)
       /\ b \in Range(storage.heap[a].Referers)

\* The names of the modules in the graph of the manifest at the remote head of r.
HeadNames(r) ==
  {m.Name : m \in Range(scanGoModule(NameWithOwner(r), GoMod,
                                     Trees[remote[r].tree][GoMod]).mods)}

\* C37: once every repository on record has been scanned at the head of its
\* remote, the ranking of the first Score of a ModRank names only modules of the
\* graphs at those heads.
C37_LatestHeadOnly ==
  (/\ call.kind = "idle"
   /\ results # <<>>
   /\ Latest.first
   /\ Latest.version = version
   /\ \A r \in DOMAIN repositories : Recorded(r))
  => {rec.Name : rec \in Range(Latest.ranking)}
       \subseteq UNION {HeadNames(r) : r \in DOMAIN repositories}

\* C38: whatever the worker count, a Run that has begun returns.
C38_RunReturns == (call.kind = "run") ~> (call.kind = "idle" /\ ret # None)

\* The same for the worker counts other than zero.
C38_RunReturnsWithWorkers ==
  (call.kind = "run" /\ cfg.workerNum # 0) ~> (call.kind = "idle" /\ ret # None)

\* The goroutines whose `go mod graph` command is running in g.
Graphing(g) == {w \in Workers : g.w[w].pc = "run"}

\* C39: with a token configured, at most one `go mod graph` command runs at a
\* time, and the gitconfig file is written only by a goroutine whose issued
\* token is not lastToken, while no command is running.
C39_CredentialsAreExclusive ==
  [][cfg.token =>
       /\ Cardinality(Graphing(git')) <= 1
       /\ (git'.writes # git.writes \/ git'.file # git.file)
            => /\ Graphing(git) = {}
               /\ \E w \in Workers : /\ git.w[w].pc = "config"
                                     /\ git.w[w].tk # git.lastToken
                                     /\ git'.w[w].pc # "config"]_vars

\* C39 witness: the command of a goroutine runs with the second token written,
\* after the file was written twice, while the other goroutine, which has made
\* a call, waits.
C39_Witness ==
  /\ cfg.token
  /\ git.w["w1"].pc = "run"
  /\ git.w["w1"].tk = "t2"
  /\ git.file = "t2"
  /\ git.lastToken = "t2"
  /\ git.writes = 2
  /\ git.w["w2"] = [NoGraph EXCEPT !.done = 1]

=========================================================================
